---- MODULE Spec2Model ----
(***************************************************************************)
(* Model of scripts/pattern_similarity_checker.py (the duplicate/          *)
(* similarity detection engine) and of build_readme.parse_front_matter,    *)
(* which it calls while loading the corpus.                                *)
(*                                                                         *)
(* Representation.                                                         *)
(*  - A Python str is a sequence of one-character strings.                 *)
(*  - A file is a record [readable, lines]; lines are its content split at *)
(*    "\n".                                                                *)
(*  - A Python float that the engine computes is a quotient of small       *)
(*    integers; it is kept as an exact fraction [n, d] with d > 0, and     *)
(*    compared by cross-multiplication.  IEEE rounding is not modelled.    *)
(***************************************************************************)
EXTENDS Integers, Sequences, FiniteSets, TLC

(***************************************************************************)
(* Characters and str methods                                              *)
(***************************************************************************)
UpperCase ==
  <<"A","B","C","D","E","F","G","H","I","J","K","L","M",
    "N","O","P","Q","R","S","T","U","V","W","X","Y","Z">>

LowerCase ==
  <<"a","b","c","d","e","f","g","h","i","j","k","l","m",
    "n","o","p","q","r","s","t","u","v","w","x","y","z">>

DigitChars == {"0","1","2","3","4","5","6","7","8","9"}

Range(f) == {f[k] : k \in DOMAIN f}

\* the lower-case letter of each upper-case letter
LowerOf ==
  [c \in Range(UpperCase) |-> LowerCase[CHOOSE k \in DOMAIN UpperCase : UpperCase[k] = c]]

\* U+0130, LATIN CAPITAL LETTER I WITH DOT ABOVE: the one character whose
\* lower case is two characters, "i" and U+0307, COMBINING DOT ABOVE
DottedI == "U+0130"

CombiningDot == "U+0307"

\* str.lower() on a str of one character
Lower(c) ==
  IF c \in DOMAIN LowerOf THEN <<LowerOf[c]>>
  ELSE IF c = DottedI THEN <<"i", CombiningDot>>
  ELSE <<c>>

\* str.lower()
RECURSIVE LowerStr(_)
LowerStr(s) ==
  IF s = <<>> THEN <<>> ELSE Lower(Head(s)) \o LowerStr(Tail(s))

\* U+0307 is a mark, not a word character
WordChars ==
  Range(UpperCase) \cup Range(LowerCase) \cup DigitChars \cup {"_", DottedI}

\* the regular expression class \w
IsWordChar(c) == c \in WordChars

\* the characters str.strip() removes from a line
Whitespace == {" ", "\t"}

RECURSIVE LStripSet(_, _)
LStripSet(s, cs) ==
  IF s # <<>> /\ Head(s) \in cs THEN LStripSet(Tail(s), cs) ELSE s

RECURSIVE RStripSet(_, _)
RStripSet(s, cs) ==
  IF s # <<>> /\ s[Len(s)] \in cs THEN RStripSet(SubSeq(s, 1, Len(s) - 1), cs) ELSE s

\* str.strip() and str.strip(chars)
StripSet(s, cs) == RStripSet(LStripSet(s, cs), cs)

Strip(s) == StripSet(s, Whitespace)

\* str.startswith(prefix)
StartsWith(s, p) == Len(s) >= Len(p) /\ SubSeq(s, 1, Len(p)) = p

\* str.endswith(suffix)
EndsWith(s, p) == Len(s) >= Len(p) /\ SubSeq(s, Len(s) - Len(p) + 1, Len(s)) = p

\* the operator "sub in s" on str
Contains(s, sub) ==
  \E k \in 1..(Len(s) - Len(sub) + 1) : SubSeq(s, k, k + Len(sub) - 1) = sub

\* s.find(c) + 1 for a single character c (0 when absent)
IndexOf(s, c) ==
  IF \E k \in 1..Len(s) : s[k] = c
  THEN CHOOSE k \in 1..Len(s) : s[k] = c /\ \A m \in 1..(k - 1) : s[m] # c
  ELSE 0

\* str.split(sep) for a single-character separator
RECURSIVE Split(_, _)
Split(s, c) ==
  LET k == IndexOf(s, c)
  IN  IF k = 0 THEN <<s>>
      ELSE <<SubSeq(s, 1, k - 1)>> \o Split(SubSeq(s, k + 1, Len(s)), c)

\* sep.join(parts) for a single-character separator
RECURSIVE Join(_, _)
Join(parts, c) ==
  IF parts = <<>> THEN <<>>
  ELSE IF Len(parts) = 1 THEN parts[1]
  ELSE parts[1] \o <<c>> \o Join(Tail(parts), c)

(***************************************************************************)
(* Floats as exact fractions                                               *)
(***************************************************************************)
RECURSIVE GCD(_, _)
GCD(a, b) == IF b = 0 THEN a ELSE GCD(b, a % b)

\* the fraction a / b in lowest terms (b > 0)
Frac(a, b) == LET g == GCD(a, b) IN [n |-> a \div g, d |-> b \div g]

FZero == Frac(0, 1)

FOne == Frac(1, 1)

FLeq(x, y) == x.n * y.d <= y.n * x.d

FLt(x, y) == x.n * y.d < y.n * x.d

FAdd(x, y) == Frac(x.n * y.d + y.n * x.d, x.d * y.d)

FMul(x, y) == Frac(x.n * y.n, x.d * y.d)

\* a decimal literal with two places, such as 0.30
Dec(h) == Frac(h, 100)

(***************************************************************************)
(* tokenize                                                                *)
(***************************************************************************)
S_a == <<"a">>
S_an == <<"a","n">>
S_the == <<"t","h","e">>
S_this == <<"t","h","i","s">>
S_that == <<"t","h","a","t">>
S_with == <<"w","i","t","h">>
S_from == <<"f","r","o","m">>
S_have == <<"h","a","v","e">>
S_been == <<"b","e","e","n">>
S_were == <<"w","e","r","e">>
S_does == <<"d","o","e","s">>
S_will == <<"w","i","l","l">>
S_must == <<"m","u","s","t">>
S_they == <<"t","h","e","y">>
S_them == <<"t","h","e","m">>
S_what == <<"w","h","a","t">>
S_whom == <<"w","h","o","m">>
S_when == <<"w","h","e","n">>
S_being == <<"b","e","i","n","g">>
S_would == <<"w","o","u","l","d">>
S_could == <<"c","o","u","l","d">>
S_should == <<"s","h","o","u","l","d">>
S_might == <<"m","i","g","h","t">>
S_these == <<"t","h","e","s","e">>
S_those == <<"t","h","o","s","e">>
S_their == <<"t","h","e","i","r">>
S_which == <<"w","h","i","c","h">>
S_where == <<"w","h","e","r","e">>

\* the stop words of tokenize; those of three characters or fewer
\* ("a", "an", "the", "and", ...) are listed through ShortStopWords
ShortStopWords ==
  { S_a, S_an, S_the, <<"a","n","d">>, <<"o","r">>, <<"b","u","t">>,
    <<"i","n">>, <<"o","n">>, <<"a","t">>, <<"t","o">>, <<"f","o","r">>,
    <<"o","f">>, <<"b","y">>, <<"a","s">>, <<"i","s">>, <<"w","a","s">>,
    <<"a","r","e">>, <<"b","e">>, <<"h","a","s">>, <<"h","a","d">>,
    <<"d","o">>, <<"d","i","d">>, <<"m","a","y">>, <<"c","a","n">>,
    <<"i","t">>, <<"i","t","s">>, <<"w","h","o">>, <<"w","h","y">>,
    <<"h","o","w">> }

stop_words ==
  ShortStopWords \cup
  { S_with, S_from, S_were, S_been, S_being, S_have, S_does, S_will,
    S_would, S_could, S_should, S_might, S_must, S_this, S_that, S_these,
    S_those, S_they, S_them, S_their, S_what, S_which, S_whom, S_when,
    S_where }

\* re.findall(r'\b\w+\b', text), as a set: the maximal runs of word characters
FindWords(text) ==
  LET n == Len(text)
      starts == {a \in 1..n : IsWordChar(text[a]) /\ (a = 1 \/ ~IsWordChar(text[a - 1]))}
      ends == {b \in 1..n : IsWordChar(text[b]) /\ (b = n \/ ~IsWordChar(text[b + 1]))}
      EndOf(a) == CHOOSE b \in ends : b >= a /\ \A c \in ends : c >= a => b <= c
  IN  {SubSeq(text, a, EndOf(a)) : a \in starts}

\* words of 3 characters are kept
TokenizeFromThree(text) ==
  IF text = <<>> THEN {}
  ELSE LET words == FindWords(LowerStr(text))
       IN  {w \in words : Len(w) >= 3 /\ w \notin stop_words}

tokenize(text) ==
  IF text = <<>> THEN {}
  ELSE LET words == FindWords(LowerStr(text))
       IN  {w \in words : Len(w) > 3 /\ w \notin stop_words}

(***************************************************************************)
(* Similarity metrics                                                      *)
(***************************************************************************)
\* 1.0 for two empty sets
JaccardEmptyEqual(set1, set2) ==
  IF set1 = {} /\ set2 = {} THEN FOne
  ELSE IF set1 = {} \/ set2 = {} THEN FZero
  ELSE LET intersection == Cardinality(set1 \cap set2)
           union == Cardinality(set1 \cup set2)
       IN  IF union > 0 THEN Frac(intersection, union) ELSE FZero

\* the intersection divided by the size of the first set
JaccardOverFirst(set1, set2) ==
  IF set1 = {} \/ set2 = {} THEN FZero
  ELSE LET intersection == Cardinality(set1 \cap set2)
           first == Cardinality(set1)
       IN  IF first > 0 THEN Frac(intersection, first) ELSE FZero

\* the intersection divided by the size of the second set
JaccardOverSecond(set1, set2) ==
  IF set1 = {} \/ set2 = {} THEN FZero
  ELSE Frac(Cardinality(set1 \cap set2), Cardinality(set2))

jaccard_similarity(set1, set2) ==
  IF set1 = {} \/ set2 = {} THEN FZero
  ELSE LET intersection == Cardinality(set1 \cap set2)
           union == Cardinality(set1 \cup set2)
       IN  IF union > 0 THEN Frac(intersection, union) ELSE FZero

\* A value of cosine_similarity is the quotient n / (sqrt(a) * sqrt(b)) and is
\* kept as the record [n, a, b], a and b in the order of the factors.
CosZero == [n |-> 0, a |-> 1, b |-> 1]

\* the magnitude taken from the first set alone
CosineOverFirst(set1, set2) ==
  IF set1 = {} \/ set2 = {} THEN CosZero
  ELSE [n |-> Cardinality(set1 \cap set2), a |-> Cardinality(set1), b |-> Cardinality(set1)]

cosine_similarity(set1, set2) ==
  IF set1 = {} \/ set2 = {} THEN CosZero
  ELSE LET intersection == Cardinality(set1 \cap set2)
       IN  IF Cardinality(set1) * Cardinality(set2) > 0
           THEN [n |-> intersection, a |-> Cardinality(set1), b |-> Cardinality(set2)]
           ELSE CosZero

Min3(a, b, c) ==
  IF a <= b /\ a <= c THEN a ELSE IF b <= c THEN b ELSE c

\* the inner loop of levenshtein_distance: j is the 1-based position in s2
RECURSIVE LevInner(_, _, _, _, _)
LevInner(c1, s2, previous_row, current_row, j) ==
  IF j > Len(s2) THEN current_row
  ELSE LET insertions == previous_row[j + 1] + 1
           deletions == current_row[j] + 1
           substitutions == previous_row[j] + (IF c1 # s2[j] THEN 1 ELSE 0)
       IN  LevInner(c1, s2, previous_row,
                    Append(current_row, Min3(insertions, deletions, substitutions)),
                    j + 1)

\* the outer loop of levenshtein_distance: i is the 1-based position in s1
RECURSIVE LevOuter(_, _, _, _)
LevOuter(s1, s2, previous_row, i) ==
  IF i > Len(s1) THEN previous_row
  ELSE LevOuter(s1, s2, LevInner(s1[i], s2, previous_row, <<i>>, 1), i + 1)

RECURSIVE levenshtein_distance(_, _)
levenshtein_distance(s1, s2) ==
  IF Len(s1) < Len(s2) THEN levenshtein_distance(s2, s1)
  ELSE IF Len(s2) = 0 THEN Len(s1)
  ELSE LevOuter(s1, s2, [k \in 1..(Len(s2) + 1) |-> k - 1], 1)[Len(s2) + 1]

Max(a, b) == IF a >= b THEN a ELSE b

\* the distance of the strings as given, not lower-cased
StringSimilarityNoLower(s1, s2) ==
  IF s1 = <<>> \/ s2 = <<>> THEN FZero
  ELSE LET max_len == Max(Len(s1), Len(s2))
       IN  IF max_len = 0 THEN FOne
           ELSE LET distance == levenshtein_distance(s1, s2)
                IN  Frac(max_len - distance, max_len)

string_similarity(s1, s2) ==
  IF s1 = <<>> \/ s2 = <<>> THEN FZero
  ELSE LET max_len == Max(Len(s1), Len(s2))
       IN  IF max_len = 0 THEN FOne
           ELSE LET distance == levenshtein_distance(LowerStr(s1), LowerStr(s2))
                IN  Frac(max_len - distance, max_len)

(***************************************************************************)
(* build_readme.parse_front_matter                                         *)
(*                                                                         *)
(* A front-matter value is a str or a list of str:                         *)
(* [list |-> FALSE, s |-> str, items |-> <<>>] or                          *)
(* [list |-> TRUE, s |-> <<>>, items |-> sequence of str].                 *)
(***************************************************************************)
StrVal(s) == [list |-> FALSE, s |-> s, items |-> <<>>]

ListVal(items) == [list |-> TRUE, s |-> <<>>, items |-> items]

S_dashes == <<"-","-","-">>

Quote2 == {"\""}

Quote1 == {"'"}

\* item.strip().strip('"').strip("'")
Unquote(s) == StripSet(StripSet(Strip(s), Quote2), Quote1)

\* [item.strip().strip('"').strip("'") for item in parts if item.strip()]
RECURSIVE ListItems(_)
ListItems(parts) ==
  IF parts = <<>> THEN <<>>
  ELSE (IF Strip(Head(parts)) # <<>> THEN <<Unquote(Head(parts))>> ELSE <<>>)
       \o ListItems(Tail(parts))

\* the value stored for the text after the first ':' of a line
ParseValue(raw) ==
  LET val == Unquote(raw)
  IN  IF StartsWith(val, <<"[">>) /\ EndsWith(val, <<"]">>)
      THEN ListVal(ListItems(Split(SubSeq(val, 2, Len(val) - 1), ",")))
      ELSE StrVal(val)

\* the loop over yaml_lines; front_matter is a function from keys to values
RECURSIVE ParseYamlLines(_, _)
ParseYamlLines(yaml_lines, front_matter) ==
  IF yaml_lines = <<>> THEN front_matter
  ELSE LET line == Head(yaml_lines)
           k == IndexOf(line, ":")
       IN  IF k = 0 THEN ParseYamlLines(Tail(yaml_lines), front_matter)
           ELSE LET key == Strip(SubSeq(line, 1, k - 1))
                    val == ParseValue(SubSeq(line, k + 1, Len(line)))
                IN  ParseYamlLines(Tail(yaml_lines),
                      [x \in DOMAIN front_matter \cup {key} |->
                         IF x = key THEN val ELSE front_matter[x]])

EmptyDict == [x \in {} |-> StrVal(<<>>)]

\* the index of the line that closes the front matter, 0 when there is none
FrontMatterEnd(lines) ==
  IF \E k \in 2..Len(lines) : Strip(lines[k]) = S_dashes
  THEN CHOOSE k \in 2..Len(lines) :
         /\ Strip(lines[k]) = S_dashes
         /\ \A m \in 2..(k - 1) : Strip(lines[m]) # S_dashes
  ELSE 0

\* the dict returned for a file that could be opened
parse_front_matter(lines) ==
  IF lines = <<>> \/ Strip(lines[1]) # S_dashes THEN EmptyDict
  ELSE LET end_index == FrontMatterEnd(lines)
       IN  IF end_index = 0 THEN EmptyDict
           ELSE ParseYamlLines(SubSeq(lines, 2, end_index - 1), EmptyDict)

\* dict.get(key, default)
Get(dict, key, default) == IF key \in DOMAIN dict THEN dict[key] ELSE default

(***************************************************************************)
(* extract_sections                                                        *)
(***************************************************************************)
S_header == <<"#","#"," ">>
S_problem == <<"p","r","o","b","l","e","m">>
S_solution == <<"s","o","l","u","t","i","o","n">>
S_how_to_use == <<"h","o","w"," ","t","o"," ","u","s","e">>
S_trade_off == <<"t","r","a","d","e","-","o","f","f">>
\* the grave accent U+0060, which a TLA+ string cannot hold
BackTick == "GRAVE"

S_backticks == <<BackTick, BackTick, BackTick>>
S_tildes == <<"~","~","~">>

\* the value None of current_section
NoSection == "none"

\* the offset of "\n" + lines[k] in the content, counted from 0
NewlineOffset(lines, k) ==
  LET RECURSIVE Sum(_)
      Sum(m) == IF m = 0 THEN 0 ELSE Sum(m - 1) + Len(lines[m]) + 1
  IN  Sum(k - 1) - 1

\* content.find('\n---', 4): the first line, after the first, that starts
\* with '---' and whose preceding newline is at offset 4 or later; 0 if none
BodyFenceLine(lines) ==
  LET hit(k) == StartsWith(lines[k], S_dashes) /\ NewlineOffset(lines, k) >= 4
  IN  IF \E k \in 2..Len(lines) : hit(k)
      THEN CHOOSE k \in 2..Len(lines) : hit(k) /\ \A m \in 2..(k - 1) : ~hit(m)
      ELSE 0

\* the lines of content after the front matter has been cut off
BodyLines(lines) ==
  IF lines # <<>> /\ StartsWith(lines[1], S_dashes)
  THEN LET end_line == BodyFenceLine(lines)
       IN  IF end_line > 0
           THEN <<SubSeq(lines[end_line], 4, Len(lines[end_line]))>>
                \o SubSeq(lines, end_line + 1, Len(lines))
           ELSE lines
  ELSE lines

\* the canonical key of a header line, matched with regard to case
SectionKeyCaseSensitive(line) ==
  LET name == Strip(SubSeq(line, 4, Len(line)))
  IN  IF Contains(name, S_problem) THEN "problem"
      ELSE IF Contains(name, S_solution) THEN "solution"
      ELSE IF Contains(name, S_how_to_use) THEN "how_to_use"
      ELSE IF Contains(name, S_trade_off) THEN "trade_offs"
      ELSE NoSection

\* the canonical key of a header line
SectionKey(line) ==
  LET name == LowerStr(Strip(SubSeq(line, 4, Len(line))))
  IN  IF Contains(name, S_problem) THEN "problem"
      ELSE IF Contains(name, S_solution) THEN "solution"
      ELSE IF Contains(name, S_how_to_use) THEN "how_to_use"
      ELSE IF Contains(name, S_trade_off) THEN "trade_offs"
      ELSE NoSection

\* the text is added to the text the key already has
SaveSectionConcatenate(sections, current_section, current_content) ==
  IF current_section # NoSection
  THEN [x \in DOMAIN sections \cup {current_section} |->
          IF x = current_section
          THEN (IF x \in DOMAIN sections THEN sections[x] ELSE <<>>)
               \o Join(current_content, " ")
          ELSE sections[x]]
  ELSE sections

\* sections[current_section] = ' '.join(current_content)
SaveSection(sections, current_section, current_content) ==
  IF current_section # NoSection
  THEN [x \in DOMAIN sections \cup {current_section} |->
          IF x = current_section THEN Join(current_content, " ") ELSE sections[x]]
  ELSE sections

\* the loop over content.split('\n'), and the save after it
RECURSIVE ExtractLoop(_, _, _, _)
ExtractLoop(lines, sections, current_section, current_content) ==
  IF lines = <<>> THEN SaveSection(sections, current_section, current_content)
  ELSE LET line == Head(lines)
       IN  IF StartsWith(line, S_header)
           THEN ExtractLoop(Tail(lines),
                            SaveSection(sections, current_section, current_content),
                            SectionKey(line), <<>>)
           ELSE IF current_section # NoSection
           THEN IF StartsWith(Strip(line), S_backticks) \/ StartsWith(Strip(line), S_tildes)
                THEN ExtractLoop(Tail(lines), sections, current_section, current_content)
                ELSE ExtractLoop(Tail(lines), sections, current_section,
                                 Append(current_content, Strip(line)))
           ELSE ExtractLoop(Tail(lines), sections, current_section, current_content)

NoSections == [x \in {} |-> <<>>]

extract_sections(lines) == ExtractLoop(BodyLines(lines), NoSections, NoSection, <<>>)

(***************************************************************************)
(* The pattern files the runs are explored on                              *)
(***************************************************************************)
\* FileFull:
\*   ---
\*   title: Cache
\*   tags: [agent, Memory]
\*   category: Memory
\*   ---
\*   ## Problem
\*   agents forget context
\*   \x60\x60\x60
\*   code here
\*   \x60\x60\x60
\*   ## Solution
\*   cache context
FileFull ==
  [readable |-> TRUE, lines |-> <<
     <<"-","-","-">>,
     <<"t","i","t","l","e",":"," ","C","a","c","h","e">>,
     <<"t","a","g","s",":"," ","[","a","g","e","n","t",","," ","M","e","m","o","r","y","]">>,
     <<"c","a","t","e","g","o","r","y",":"," ","M","e","m","o","r","y">>,
     <<"-","-","-">>,
     <<"#","#"," ","P","r","o","b","l","e","m">>,
     <<"a","g","e","n","t","s"," ","f","o","r","g","e","t"," ","c","o","n","t","e","x","t">>,
     <<BackTick,BackTick,BackTick>>,
     <<"c","o","d","e"," ","h","e","r","e">>,
     <<BackTick,BackTick,BackTick>>,
     <<"#","#"," ","S","o","l","u","t","i","o","n">>,
     <<"c","a","c","h","e"," ","c","o","n","t","e","x","t">> >>]

\* FileNear:
\*   ---
\*   title: "cash"
\*   tags: [agent]
\*   category: Memory
\*   ---
\*   ## The problem
\*   agents forget
\*   ## Solution
\*   cache context
FileNear ==
  [readable |-> TRUE, lines |-> <<
     <<"-","-","-">>,
     <<"t","i","t","l","e",":"," ","\"","c","a","s","h","\"">>,
     <<"t","a","g","s",":"," ","[","a","g","e","n","t","]">>,
     <<"c","a","t","e","g","o","r","y",":"," ","M","e","m","o","r","y">>,
     <<"-","-","-">>,
     <<"#","#"," ","T","h","e"," ","p","r","o","b","l","e","m">>,
     <<"a","g","e","n","t","s"," ","f","o","r","g","e","t">>,
     <<"#","#"," ","S","o","l","u","t","i","o","n">>,
     <<"c","a","c","h","e"," ","c","o","n","t","e","x","t">> >>]

\* FileBare:
\*   ## Problem
\*   agents forget context
\*   ## Solution
\*   cache context
FileBare ==
  [readable |-> TRUE, lines |-> <<
     <<"#","#"," ","P","r","o","b","l","e","m">>,
     <<"a","g","e","n","t","s"," ","f","o","r","g","e","t"," ","c","o","n","t","e","x","t">>,
     <<"#","#"," ","S","o","l","u","t","i","o","n">>,
     <<"c","a","c","h","e"," ","c","o","n","t","e","x","t">> >>]

\* FileListTitle:
\*   ---
\*   title: [Cache]
\*   tags: agent
\*   category: Memory
\*   ---
\*   ## Problem
\*   agents forget context
FileListTitle ==
  [readable |-> TRUE, lines |-> <<
     <<"-","-","-">>,
     <<"t","i","t","l","e",":"," ","[","C","a","c","h","e","]">>,
     <<"t","a","g","s",":"," ","a","g","e","n","t">>,
     <<"c","a","t","e","g","o","r","y",":"," ","M","e","m","o","r","y">>,
     <<"-","-","-">>,
     <<"#","#"," ","P","r","o","b","l","e","m">>,
     <<"a","g","e","n","t","s"," ","f","o","r","g","e","t"," ","c","o","n","t","e","x","t">> >>]


\* a file that cannot be opened or decoded
FileUnreadable == [readable |-> FALSE, lines |-> <<>>]

FilePool == {FileFull, FileNear, FileBare, FileListTitle, FileUnreadable}

\* the files compare_to_pattern is called on
CandidateFiles == {FileNear, FileUnreadable}

\* the largest number of files in the patterns directory
MaxDocs == 3

FileNames == <<"p1.md", "p2.md", "p3.md", "p4.md", "p5.md">>

TemplateName == "TEMPLATE.md"

\* the directory listings, in glob order: the template, then up to MaxDocs
\* pattern files with distinct names
Listings ==
  UNION { { <<[name |-> TemplateName, file |-> FileFull]>> \o
            [k \in 1..n |-> [name |-> FileNames[k], file |-> c[k]]] :
              c \in [1..n -> FilePool] } : n \in 0..MaxDocs }

\* the values of --threshold that are explored
Thresholds == {Dec(30), Dec(100)}

\* the default of --threshold and of __init__'s threshold parameter
DefaultThreshold == Dec(50)

(***************************************************************************)
(* PatternSimilarityChecker                                                *)
(***************************************************************************)
VARIABLES
  fs,           \* the patterns directory: sequence of [name, file], glob order
  threshold_arg,\* --threshold: <<t>> when given, <<>> when left out
  threshold,    \* self.threshold
  pc,           \* "loading", "ready", "running", "done", "error"
  mode,         \* "none", "all_pairs" or "one_vs_corpus"
  li,           \* _load_patterns: position of the glob loop
  patterns,     \* self.patterns
  warnings,     \* names printed by "Warning: Could not load"
  new_pattern,  \* compare_to_pattern: the candidate
  i,            \* position of the (outer) comparison loop
  j,            \* check_all_similarities: position of the inner loop
  results,      \* the list being built, then returned
  evaluated,    \* history: the calls of _calculate_similarity that returned,
                \* as [file1, file2, similarity], in call order
  call          \* a single call of a library function: [fn, args, done, ret]

engine_vars == <<fs, threshold_arg, threshold, pc, mode, li, patterns, warnings,
                 new_pattern, i, j, results, evaluated>>

vars == <<engine_vars, call>>

S_title == <<"t","i","t","l","e">>
S_tags == <<"t","a","g","s">>
S_category == <<"c","a","t","e","g","o","r","y">>

\* [t.lower() for t in value]: over the items of a list, or the characters of a str
LowerTags(value) ==
  IF value.list THEN [k \in 1..Len(value.items) |-> LowerStr(value.items[k])]
  ELSE [k \in 1..Len(value.s) |-> Lower(value.s[k])]

\* the dict built for one file by _load_patterns and compare_to_pattern
MakePattern(name, lines) ==
  LET metadata == parse_front_matter(lines)
      sections == extract_sections(lines)
  IN  [file |-> name,
       title |-> Get(metadata, S_title, StrVal(<<>>)),
       tags |-> LowerTags(Get(metadata, S_tags, ListVal(<<>>))),
       category |-> Get(metadata, S_category, StrVal(<<>>)),
       sections |-> sections]

\* bool(value) for a str or a list
Truthy(value) == IF value.list THEN value.items # <<>> ELSE value.s # <<>>

\* string_similarity reaches s1.lower() with a list: AttributeError
LowerRaises(title1, title2) ==
  Truthy(title1) /\ Truthy(title2) /\ (title1.list \/ title2.list)

\* the tokens of the problem section only
ContentTokensProblemOnly(pattern) ==
  UNION { tokenize(pattern.sections[section]) :
            section \in {"problem"} \cap DOMAIN pattern.sections }

\* the tokens of every section of a pattern
ContentTokensAllSections(pattern) ==
  UNION { tokenize(pattern.sections[section]) : section \in DOMAIN pattern.sections }

\* the tokens of the problem and solution sections of a pattern
ContentTokens(pattern) ==
  UNION { tokenize(pattern.sections[section]) :
            section \in {"problem", "solution"} \cap DOMAIN pattern.sections }

\* _calculate_similarity with the categories compared without regard to case
CalculateSimilarityCategoryLower(pattern1, pattern2) ==
  LET tag_sim == jaccard_similarity(Range(pattern1.tags), Range(pattern2.tags))
      title_sim == IF Truthy(pattern1.title) /\ Truthy(pattern2.title)
                   THEN string_similarity(pattern1.title.s, pattern2.title.s)
                   ELSE FZero
      category_match == IF LowerStr(pattern1.category.s) = LowerStr(pattern2.category.s)
                        THEN FOne ELSE FZero
      content_sim == jaccard_similarity(ContentTokens(pattern1), ContentTokens(pattern2))
      total == FAdd(FAdd(FAdd(FMul(tag_sim, Dec(30)),
                              FMul(title_sim, Dec(20))),
                         FMul(category_match, Dec(15))),
                    FMul(content_sim, Dec(35)))
  IN  [tag |-> tag_sim, title |-> title_sim, category |-> category_match,
       content |-> content_sim, total |-> total]

\* _calculate_similarity with the title weighted 0.25 instead of 0.20
CalculateSimilarityTitleWeight(pattern1, pattern2) ==
  LET tag_sim == jaccard_similarity(Range(pattern1.tags), Range(pattern2.tags))
      title_sim == IF Truthy(pattern1.title) /\ Truthy(pattern2.title)
                   THEN string_similarity(pattern1.title.s, pattern2.title.s)
                   ELSE FZero
      category_match == IF pattern1.category = pattern2.category THEN FOne ELSE FZero
      content_sim == jaccard_similarity(ContentTokens(pattern1), ContentTokens(pattern2))
      total == FAdd(FAdd(FAdd(FMul(tag_sim, Dec(30)),
                              FMul(title_sim, Dec(25))),
                         FMul(category_match, Dec(15))),
                    FMul(content_sim, Dec(35)))
  IN  [tag |-> tag_sim, title |-> title_sim, category |-> category_match,
       content |-> content_sim, total |-> total]

\* two absent titles count as equal titles
CalculateSimilarityEmptyTitlesEqual(pattern1, pattern2) ==
  LET tag_sim == jaccard_similarity(Range(pattern1.tags), Range(pattern2.tags))
      title_sim == IF Truthy(pattern1.title) /\ Truthy(pattern2.title)
                   THEN string_similarity(pattern1.title.s, pattern2.title.s)
                   ELSE IF ~Truthy(pattern1.title) /\ ~Truthy(pattern2.title) THEN FOne
                   ELSE FZero
      category_match == IF pattern1.category = pattern2.category THEN FOne ELSE FZero
      content_sim == jaccard_similarity(ContentTokens(pattern1), ContentTokens(pattern2))
      total == FAdd(FAdd(FAdd(FMul(tag_sim, Dec(30)),
                              FMul(title_sim, Dec(20))),
                         FMul(category_match, Dec(15))),
                    FMul(content_sim, Dec(35)))
  IN  [tag |-> tag_sim, title |-> title_sim, category |-> category_match,
       content |-> content_sim, total |-> total]

_calculate_similarity(pattern1, pattern2) ==
  LET tag_sim == jaccard_similarity(Range(pattern1.tags), Range(pattern2.tags))
      title_sim == IF Truthy(pattern1.title) /\ Truthy(pattern2.title)
                   THEN string_similarity(pattern1.title.s, pattern2.title.s)
                   ELSE FZero
      category_match == IF pattern1.category = pattern2.category THEN FOne ELSE FZero
      content_sim == jaccard_similarity(ContentTokens(pattern1), ContentTokens(pattern2))
      total == FAdd(FAdd(FAdd(FMul(tag_sim, Dec(30)),
                              FMul(title_sim, Dec(20))),
                         FMul(category_match, Dec(15))),
                    FMul(content_sim, Dec(35)))
  IN  [tag |-> tag_sim, title |-> title_sim, category |-> category_match,
       content |-> content_sim, total |-> total]

\* _calculate_similarity(pattern1, pattern2) raises instead of returning
CalculateRaises(pattern1, pattern2) == LowerRaises(pattern1.title, pattern2.title)

\* the bands with exclusive lower bounds
SuggestActionStrict(sim) ==
  LET total == sim.total
  IN  IF FLt(Dec(80), total) THEN "MERGE"
      ELSE IF FLt(Dec(70), total) THEN "REVIEW"
      ELSE IF FLt(Dec(60), total) THEN "CHECK"
      ELSE IF FLt(Dec(50), total) THEN "RELATED"
      ELSE "OK"

\* the returned text is "MERGE - Patterns are very similar, consider merging",
\* "REVIEW - ...", "CHECK - ...", "RELATED - ..." or
\* "OK - Below similarity threshold"; the model keeps its first word
suggest_action(sim) ==
  LET total == sim.total
  IN  IF FLeq(Dec(80), total) THEN "MERGE"
      ELSE IF FLeq(Dec(70), total) THEN "REVIEW"
      ELSE IF FLeq(Dec(60), total) THEN "CHECK"
      ELSE IF FLeq(Dec(50), total) THEN "RELATED"
      ELSE "OK"

\* a sort that puts r in front of the elements of equal total
InsertSortedBeforeTies(sorted, r) ==
  LET k == Cardinality({m \in 1..Len(sorted) : FLt(r.similarity.total, sorted[m].similarity.total)})
  IN  SubSeq(sorted, 1, k) \o <<r>> \o SubSeq(sorted, k + 1, Len(sorted))

\* list.sort(key=total, reverse=True): r goes behind every element whose
\* total is not smaller
InsertSorted(sorted, r) ==
  LET k == Cardinality({m \in 1..Len(sorted) : FLeq(r.similarity.total, sorted[m].similarity.total)})
  IN  SubSeq(sorted, 1, k) \o <<r>> \o SubSeq(sorted, k + 1, Len(sorted))

RECURSIVE SortFrom(_, _)
SortFrom(sorted, rest) ==
  IF rest = <<>> THEN sorted ELSE SortFrom(InsertSorted(sorted, Head(rest)), Tail(rest))

SortResults(rs) == SortFrom(<<>>, rs)

(***************************************************************************)
(* Runs: __init__ loads the corpus, then main calls one of the two modes   *)
(***************************************************************************)
NoPattern ==
  [file |-> "", title |-> StrVal(<<>>), tags |-> <<>>, category |-> StrVal(<<>>),
   sections |-> NoSections]

NoCall == [fn |-> "none", args |-> <<>>, done |-> FALSE, ret |-> FZero]

Init ==
  /\ fs \in Listings
  /\ threshold_arg \in {<<>>} \cup {<<t>> : t \in Thresholds}
  /\ threshold = IF threshold_arg = <<>> THEN DefaultThreshold ELSE threshold_arg[1]
  /\ call = NoCall
  /\ pc = "loading"
  /\ mode = "none"
  /\ li = 1
  /\ patterns = <<>>
  /\ warnings = <<>>
  /\ new_pattern = NoPattern
  /\ i = 0
  /\ j = 0
  /\ results = <<>>
  /\ evaluated = <<>>

\* one iteration of the glob loop of _load_patterns
LoadStep ==
  /\ pc = "loading"
  /\ li <= Len(fs)
  /\ LET f == fs[li]
     IN  IF f.name = TemplateName
         THEN UNCHANGED <<patterns, warnings>>
         ELSE IF ~f.file.readable
         THEN /\ warnings' = Append(warnings, f.name)
              /\ UNCHANGED patterns
         ELSE /\ patterns' = Append(patterns, MakePattern(f.name, f.file.lines))
              /\ UNCHANGED warnings
  /\ li' = li + 1
  /\ UNCHANGED <<call, fs, threshold_arg, threshold, pc, mode, new_pattern, i, j, results, evaluated>>

\* _load_patterns returns before the glob loop is over
LoadReturnEarly ==
  /\ pc = "loading"
  /\ pc' = "ready"
  /\ UNCHANGED <<call, fs, threshold_arg, threshold, mode, li, patterns, warnings, new_pattern, i, j,
                 results, evaluated>>

\* _load_patterns returns and __init__ ends
LoadReturn ==
  /\ pc = "loading"
  /\ li > Len(fs)
  /\ pc' = "ready"
  /\ UNCHANGED <<call, fs, threshold_arg, threshold, mode, li, patterns, warnings, new_pattern, i, j,
                 results, evaluated>>

\* the body of the inner loop with the test total > threshold
AllPairsBodyStrict(rs, pattern1, pattern2, t) ==
  LET sim == _calculate_similarity(pattern1, pattern2)
  IN  IF FLt(t, sim.total)
      THEN Append(rs, [pattern1 |-> pattern1.file, pattern2 |-> pattern2.file,
                       title1 |-> pattern1.title, title2 |-> pattern2.title,
                       similarity |-> sim])
      ELSE rs

\* the body of the inner loop with the test total <= threshold
AllPairsBodyReversed(rs, pattern1, pattern2, t) ==
  LET sim == _calculate_similarity(pattern1, pattern2)
  IN  IF FLeq(sim.total, t)
      THEN Append(rs, [pattern1 |-> pattern1.file, pattern2 |-> pattern2.file,
                       title1 |-> pattern1.title, title2 |-> pattern2.title,
                       similarity |-> sim])
      ELSE rs

\* the body of the inner loop, flagging a document at most once as the
\* second of a pair: it reads what earlier pair evaluations appended
AllPairsBodyOncePerDocument(rs, pattern1, pattern2, t) ==
  LET sim == _calculate_similarity(pattern1, pattern2)
  IN  IF FLeq(t, sim.total) /\ \A k \in DOMAIN rs : rs[k].pattern2 # pattern2.file
      THEN Append(rs, [pattern1 |-> pattern1.file, pattern2 |-> pattern2.file,
                       title1 |-> pattern1.title, title2 |-> pattern2.title,
                       similarity |-> sim])
      ELSE rs

\* the body of the inner loop of check_all_similarities
AllPairsBody(rs, pattern1, pattern2, t) ==
  LET sim == _calculate_similarity(pattern1, pattern2)
  IN  IF FLeq(t, sim.total)
      THEN Append(rs, [pattern1 |-> pattern1.file, pattern2 |-> pattern2.file,
                       title1 |-> pattern1.title, title2 |-> pattern2.title,
                       similarity |-> sim])
      ELSE rs

\* every compared document is returned, whatever its total
CompareBodyNoThreshold(rs, candidate, existing, t) ==
  LET sim == _calculate_similarity(candidate, existing)
  IN  Append(rs, [existing_file |-> existing.file,
                  existing_title |-> existing.title,
                  similarity |-> sim])

\* the body of the loop of compare_to_pattern, past the self check
CompareBody(rs, candidate, existing, t) ==
  LET sim == _calculate_similarity(candidate, existing)
  IN  IF FLeq(t, sim.total)
      THEN Append(rs, [existing_file |-> existing.file,
                       existing_title |-> existing.title,
                       similarity |-> sim])
      ELSE rs

\* the inner loop over the slice patterns[i:] instead of patterns[i + 1:]
FirstInnerSame(outer) == outer

\* the position where the inner loop starts: the slice patterns[i + 1:]
FirstInner(outer) == outer + 1

\* the self check left out
IsSelfNever(existing, candidate) == FALSE

\* the test behind "continue  # Skip self"
IsSelf(existing, candidate) == existing.file = candidate.file

\* check_all_similarities is called
StartAll ==
  /\ pc = "ready"
  /\ pc' = "running"
  /\ mode' = "all_pairs"
  /\ i' = 1
  /\ j' = FirstInner(1)
  /\ results' = <<>>
  /\ UNCHANGED <<call, fs, threshold_arg, threshold, li, patterns, warnings, new_pattern, evaluated>>

\* one iteration of the inner loop: the pair (patterns[i], patterns[j])
AllStep ==
  /\ pc = "running"
  /\ mode = "all_pairs"
  /\ j <= Len(patterns)
  /\ LET pattern1 == patterns[i]
         pattern2 == patterns[j]
     IN  IF CalculateRaises(pattern1, pattern2)
         THEN /\ pc' = "error"
              /\ UNCHANGED <<i, j, results, evaluated>>
         ELSE /\ evaluated' = Append(evaluated,
                    [file1 |-> pattern1.file, file2 |-> pattern2.file,
                     similarity |-> _calculate_similarity(pattern1, pattern2)])
              /\ results' = AllPairsBody(results, pattern1, pattern2, threshold)
              /\ IF j < Len(patterns)
                 THEN i' = i /\ j' = j + 1
                 ELSE i' = i + 1 /\ j' = FirstInner(i + 1)
              /\ UNCHANGED pc
  /\ UNCHANGED <<call, fs, threshold_arg, threshold, mode, li, patterns, warnings, new_pattern>>

\* the loops are over: sort and return, with the corpus sorted away
AllFinishConsumesCorpus ==
  /\ pc = "running"
  /\ mode = "all_pairs"
  /\ j > Len(patterns)
  /\ results' = SortResults(results)
  /\ patterns' = <<>>
  /\ pc' = "done"
  /\ UNCHANGED <<call, fs, threshold_arg, threshold, mode, li, warnings, new_pattern, i, j,
                 evaluated>>

\* the loops are over: sort and return
AllFinish ==
  /\ pc = "running"
  /\ mode = "all_pairs"
  /\ j > Len(patterns)
  /\ results' = SortResults(results)
  /\ pc' = "done"
  /\ UNCHANGED <<call, fs, threshold_arg, threshold, mode, li, patterns, warnings, new_pattern, i, j,
                 evaluated>>

\* the names of the paths compare_to_pattern is called with: those of the
\* files of the patterns directory, and one that none of them has
CandidateNames == {fs[k].name : k \in DOMAIN fs} \cup {"new.md"}

\* compare_to_pattern(filepath) is called
StartCompare ==
  /\ pc = "ready"
  /\ \E name \in CandidateNames, file \in CandidateFiles :
       IF ~file.readable
       THEN /\ pc' = "done"
            /\ UNCHANGED <<new_pattern, i>>
       ELSE /\ new_pattern' = MakePattern(name, file.lines)
            /\ i' = 1
            /\ pc' = "running"
  /\ mode' = "one_vs_corpus"
  /\ results' = <<>>
  /\ UNCHANGED <<call, fs, threshold_arg, threshold, li, patterns, warnings, j, evaluated>>

\* one iteration of the loop of compare_to_pattern
CompareStep ==
  /\ pc = "running"
  /\ mode = "one_vs_corpus"
  /\ i <= Len(patterns)
  /\ LET existing == patterns[i]
     IN  IF IsSelf(existing, new_pattern)
         THEN /\ i' = i + 1
              /\ UNCHANGED <<pc, results, evaluated>>
         ELSE IF CalculateRaises(new_pattern, existing)
         THEN /\ pc' = "error"
              /\ UNCHANGED <<i, results, evaluated>>
         ELSE /\ evaluated' = Append(evaluated,
                    [file1 |-> new_pattern.file, file2 |-> existing.file,
                     similarity |-> _calculate_similarity(new_pattern, existing)])
              /\ results' = CompareBody(results, new_pattern, existing, threshold)
              /\ i' = i + 1
              /\ UNCHANGED pc
  /\ UNCHANGED <<call, fs, threshold_arg, threshold, mode, li, patterns, warnings, new_pattern, j>>

\* the loop is over: sort and return
CompareFinish ==
  /\ pc = "running"
  /\ mode = "one_vs_corpus"
  /\ i > Len(patterns)
  /\ results' = SortResults(results)
  /\ pc' = "done"
  /\ UNCHANGED <<call, fs, threshold_arg, threshold, mode, li, patterns, warnings, new_pattern, i, j,
                 evaluated>>

\* the loops of check_all_similarities from the pair (a, b) on
RECURSIVE AllPairsLoop(_, _, _, _, _)
AllPairsLoop(ps, a, b, rs, t) ==
  IF b > Len(ps) THEN rs
  ELSE AllPairsLoop(ps,
                    IF b < Len(ps) THEN a ELSE a + 1,
                    IF b < Len(ps) THEN b + 1 ELSE FirstInner(a + 1),
                    AllPairsBody(rs, ps[a], ps[b], t), t)

\* the list check_all_similarities returns for the corpus ps and threshold t
check_all_similarities(ps, t) == SortResults(AllPairsLoop(ps, 1, FirstInner(1), <<>>, t))

\* the loop of compare_to_pattern from position a on
RECURSIVE CompareLoop(_, _, _, _, _)
CompareLoop(ps, candidate, a, rs, t) ==
  IF a > Len(ps) THEN rs
  ELSE CompareLoop(ps, candidate, a + 1,
                   IF IsSelf(ps[a], candidate) THEN rs
                   ELSE CompareBody(rs, candidate, ps[a], t), t)

\* the list compare_to_pattern returns for a candidate that was parsed
compare_to_pattern(ps, candidate, t) == SortResults(CompareLoop(ps, candidate, 1, <<>>, t))

\* the caller has the returned list and calls a method of the same checker
\* again: the locals of the finished call are gone, self is kept
CallAgain ==
  /\ pc = "done"
  /\ pc' = "ready"
  /\ mode' = "none"
  /\ new_pattern' = NoPattern
  /\ i' = 0
  /\ j' = 0
  /\ results' = <<>>
  /\ evaluated' = <<>>
  /\ UNCHANGED <<call, fs, threshold_arg, threshold, li, patterns, warnings>>

Next ==
  \/ LoadStep
  \/ LoadReturn
  \/ StartAll
  \/ AllStep
  \/ AllFinish
  \/ StartCompare
  \/ CompareStep
  \/ CompareFinish
  \/ CallAgain

Spec == Init /\ [][Next]_vars

(***************************************************************************)
(* Single calls of the library functions, on arguments from bounded sets   *)
(***************************************************************************)
\* no checker is running
EngineIdle ==
  /\ fs = <<>>
  /\ threshold_arg = <<>>
  /\ threshold = DefaultThreshold
  /\ pc = "idle"
  /\ mode = "none"
  /\ li = 1
  /\ patterns = <<>>
  /\ warnings = <<>>
  /\ new_pattern = NoPattern
  /\ i = 0
  /\ j = 0
  /\ results = <<>>
  /\ evaluated = <<>>

\* the largest number of distinct tokens in the arguments of a metric
MaxTokens == 3

TokenNames == <<"agent", "memory", "cache", "tool", "plan">>

TokenSets == SUBSET {TokenNames[k] : k \in 1..MaxTokens}

InitJaccard ==
  /\ EngineIdle
  /\ call \in {[fn |-> "jaccard_similarity", args |-> <<A, B>>, done |-> FALSE, ret |-> FZero] :
                 A \in TokenSets, B \in TokenSets}

\* jaccard_similarity(set1, set2) returns
CallJaccard ==
  /\ call.fn = "jaccard_similarity"
  /\ ~call.done
  /\ call' = [call EXCEPT !.done = TRUE,
                           !.ret = jaccard_similarity(call.args[1], call.args[2])]
  /\ UNCHANGED engine_vars

SpecJaccard == InitJaccard /\ [][CallJaccard]_vars

\* the totals suggest_action is called on: the multiples of 1 / TotalSteps
TotalSteps == 100

SimilarityDicts ==
  {[tag |-> a, title |-> FZero, category |-> a, content |-> FZero, total |-> Frac(k, TotalSteps)] :
     a \in {FZero, FOne}, k \in 0..TotalSteps}

InitSuggestAction ==
  /\ EngineIdle
  /\ call \in {[fn |-> "suggest_action", args |-> <<sim>>, done |-> FALSE, ret |-> ""] :
                 sim \in SimilarityDicts}

\* suggest_action(similarity) returns
CallSuggestAction ==
  /\ call.fn = "suggest_action"
  /\ ~call.done
  /\ call' = [call EXCEPT !.done = TRUE, !.ret = suggest_action(call.args[1])]
  /\ UNCHANGED engine_vars

SpecSuggestAction == InitSuggestAction /\ [][CallSuggestAction]_vars

\* the longest str given to string_similarity
MaxStrLen == 2

\* the characters of those strs: two cases of one letter, another letter, and
\* the character that str.lower() lengthens
StrChars == {"a", "A", "b", DottedI}

Strs == UNION {[1..n -> StrChars] : n \in 0..MaxStrLen}

InitStringSimilarity ==
  /\ EngineIdle
  /\ call \in {[fn |-> "string_similarity", args |-> <<s1, s2>>, done |-> FALSE, ret |-> FZero] :
                 s1 \in Strs, s2 \in Strs}

\* string_similarity(s1, s2) returns
CallStringSimilarity ==
  /\ call.fn = "string_similarity"
  /\ ~call.done
  /\ call' = [call EXCEPT !.done = TRUE,
                          !.ret = string_similarity(call.args[1], call.args[2])]
  /\ UNCHANGED engine_vars

SpecStringSimilarity == InitStringSimilarity /\ [][CallStringSimilarity]_vars

\* the title line of a front matter: none, 'title: Ab', 'title: aB',
\* 'title: \u0130\u0130' and 'title: [Ab]'
ScenarioTitles ==
  { <<>>,
    <<<<"t","i","t","l","e",":"," ","A","b">>>>,
    <<<<"t","i","t","l","e",":"," ","a","B">>>>,
    <<<<"t","i","t","l","e",":"," ",DottedI,DottedI>>>>,
    <<<<"t","i","t","l","e",":"," ","[","A","b","]">>>> }

\* the tags line: none, 'tags: [agent, Memory]' and 'tags: [tools]'
ScenarioTags ==
  { <<>>,
    <<<<"t","a","g","s",":"," ","[","a","g","e","n","t",","," ","M","e","m","o","r","y","]">>>>,
    <<<<"t","a","g","s",":"," ","[","t","o","o","l","s","]">>>> }

\* the category line: none, 'category: Memory' and 'category: memory'
ScenarioCategories ==
  { <<>>,
    <<<<"c","a","t","e","g","o","r","y",":"," ","M","e","m","o","r","y">>>>,
    <<<<"c","a","t","e","g","o","r","y",":"," ","m","e","m","o","r","y">>>> }

\* the lines after the front matter: none; a problem and a solution; a problem
\* and a solution in other words; a problem and a solution of short words
\* ('the fix', 'do it'); a section that is neither; the first problem with
\* the second solution, alone and followed by trade-offs in the words of the
\* second problem
ScenarioBodies ==
  { <<>>,
    <<<<"#","#"," ","P","r","o","b","l","e","m">>, <<"a","g","e","n","t","s"," ","f","o","r","g","e","t"," ","c","o","n","t","e","x","t">>, <<"#","#"," ","S","o","l","u","t","i","o","n">>, <<"p","i","n","n","e","d"," ","v","e","r","s","i","o","n","s">>>>,
    <<<<"#","#"," ","P","r","o","b","l","e","m">>, <<"a","g","e","n","t","s"," ","f","o","r","g","e","t"," ","c","o","n","t","e","x","t">>, <<"#","#"," ","S","o","l","u","t","i","o","n">>, <<"p","i","n","n","e","d"," ","v","e","r","s","i","o","n","s">>, <<"#","#"," ","T","r","a","d","e","-","o","f","f","s">>, <<"t","o","o","l","s"," ","d","r","i","f","t"," ","a","p","a","r","t">>>>,
    <<<<"#","#"," ","P","r","o","b","l","e","m">>, <<"t","h","e"," ","f","i","x">>, <<"#","#"," ","S","o","l","u","t","i","o","n">>, <<"d","o"," ","i","t">>>>,
    <<<<"#","#"," ","P","r","o","b","l","e","m">>, <<"a","g","e","n","t","s"," ","f","o","r","g","e","t"," ","c","o","n","t","e","x","t">>, <<"#","#"," ","S","o","l","u","t","i","o","n">>, <<"c","a","c","h","e"," ","c","o","n","t","e","x","t">>>>,
    <<<<"#","#"," ","P","r","o","b","l","e","m">>, <<"t","o","o","l","s"," ","d","r","i","f","t"," ","a","p","a","r","t">>, <<"#","#"," ","S","o","l","u","t","i","o","n">>, <<"p","i","n","n","e","d"," ","v","e","r","s","i","o","n","s">>>>,
    <<<<"#","#"," ","H","o","w"," ","t","o"," ","u","s","e"," ","i","t">>, <<"a","g","e","n","t","s"," ","f","o","r","g","e","t"," ","c","o","n","t","e","x","t">>>> }

\* the files made of these parts
ScenarioFiles ==
  { <<S_dashes>> \o title \o tags \o category \o <<S_dashes>> \o body :
      title \in ScenarioTitles, tags \in ScenarioTags,
      category \in ScenarioCategories, body \in ScenarioBodies }

\* the dicts the loader builds for them, under two file names
FirstPatterns == {MakePattern("a.md", lines) : lines \in ScenarioFiles}

SecondPatterns == {MakePattern("b.md", lines) : lines \in ScenarioFiles}

\* the value of a call that has not returned
NoSimilarity ==
  [tag |-> FZero, title |-> FZero, category |-> FZero, content |-> FZero, total |-> FZero]

InitCalculate ==
  /\ EngineIdle
  /\ call \in {[fn |-> "_calculate_similarity", args |-> <<pattern1, pattern2>>,
                 done |-> FALSE, raised |-> FALSE, ret |-> NoSimilarity] :
                 pattern1 \in FirstPatterns, pattern2 \in SecondPatterns}

\* _calculate_similarity(pattern1, pattern2) returns
CalculateReturn ==
  /\ call.fn = "_calculate_similarity"
  /\ ~call.done
  /\ ~CalculateRaises(call.args[1], call.args[2])
  /\ call' = [call EXCEPT !.done = TRUE,
                          !.ret = _calculate_similarity(call.args[1], call.args[2])]
  /\ UNCHANGED engine_vars

\* _calculate_similarity(pattern1, pattern2) raises AttributeError
CalculateRaise ==
  /\ call.fn = "_calculate_similarity"
  /\ ~call.done
  /\ CalculateRaises(call.args[1], call.args[2])
  /\ call' = [call EXCEPT !.done = TRUE, !.raised = TRUE]
  /\ UNCHANGED engine_vars

NextCalculate == CalculateReturn \/ CalculateRaise

SpecCalculate == InitCalculate /\ [][NextCalculate]_vars

InitCosine ==
  /\ EngineIdle
  /\ \/ call \in {[fn |-> "cosine_similarity", args |-> <<A, B>>, done |-> FALSE,
                    raised |-> FALSE, ret |-> CosZero] : A \in TokenSets, B \in TokenSets}
     \/ call \in {[fn |-> "_calculate_similarity", args |-> <<pattern1, pattern2>>,
                    done |-> FALSE, raised |-> FALSE, ret |-> NoSimilarity] :
                    pattern1 \in FirstPatterns, pattern2 \in SecondPatterns}

\* cosine_similarity(set1, set2) returns
CallCosine ==
  /\ call.fn = "cosine_similarity"
  /\ ~call.done
  /\ call' = [call EXCEPT !.done = TRUE,
                          !.ret = cosine_similarity(call.args[1], call.args[2])]
  /\ UNCHANGED engine_vars

\* the calls of the module that involve a metric over token sets: of
\* cosine_similarity, which nothing in the module calls, and of
\* _calculate_similarity
NextCosine == CallCosine \/ CalculateReturn \/ CalculateRaise

SpecCosine == InitCosine /\ [][NextCosine]_vars

\* the largest number of lines of a file given to extract_sections
MaxBodyLines == 3

\* the lines of those files: the headers '## Problem', '## Solution',
\* '## Notes', '## HOW TO USE it' and '## Trade-offs', the third-level header
\* '### Problem', the two fence markers, two lines of text
BodyLineChoices ==
  { <<"#","#"," ","P","r","o","b","l","e","m">>,
    <<"#","#"," ","S","o","l","u","t","i","o","n">>,
    <<"#","#"," ","N","o","t","e","s">>,
    <<"#","#"," ","H","O","W"," ","T","O"," ","U","S","E"," ","i","t">>,
    <<"#","#"," ","T","r","a","d","e","-","o","f","f","s">>,
    <<"#","#","#"," ","P","r","o","b","l","e","m">>,
    S_backticks, S_tildes,
    <<"a","g","e","n","t","s"," ","f","o","r","g","e","t">>,
    <<" ","c","a","c","h","e"," "," ">> }

SectionFiles == UNION {[1..n -> BodyLineChoices] : n \in 0..MaxBodyLines}

InitExtractSections ==
  /\ EngineIdle
  /\ call \in {[fn |-> "extract_sections", args |-> <<lines>>, done |-> FALSE, ret |-> NoSections] :
                 lines \in SectionFiles}

\* extract_sections(filepath) returns
CallExtractSections ==
  /\ call.fn = "extract_sections"
  /\ ~call.done
  /\ call' = [call EXCEPT !.done = TRUE, !.ret = extract_sections(call.args[1])]
  /\ UNCHANGED engine_vars

SpecExtractSections == InitExtractSections /\ [][CallExtractSections]_vars

\* the longest text given to tokenize
MaxTextLen == 4

\* the characters of those texts: the letters of the stop word "with", an
\* upper-case letter, a blank, and the character that lower() lengthens
TextChars == {"w", "i", "t", "h", "T", " ", DottedI}

\* what a text starts with: nothing, or the stop word "with" and a blank
TextStarts == {<<>>, <<"w", "i", "t", "h", " ">>}

Texts ==
  {start \o rest : start \in TextStarts,
                    rest \in UNION {[1..n -> TextChars] : n \in 0..MaxTextLen}}

InitTokenize ==
  /\ EngineIdle
  /\ call \in {[fn |-> "tokenize", args |-> <<text>>, done |-> FALSE, ret |-> {}] :
                 text \in Texts}

\* tokenize(text) returns
CallTokenize ==
  /\ call.fn = "tokenize"
  /\ ~call.done
  /\ call' = [call EXCEPT !.done = TRUE, !.ret = tokenize(call.args[1])]
  /\ UNCHANGED engine_vars

SpecTokenize == InitTokenize /\ [][CallTokenize]_vars

InitLevenshtein ==
  /\ EngineIdle
  /\ \/ call \in {[fn |-> "levenshtein_distance", args |-> <<s1, s2>>, done |-> FALSE, ret |-> 0] :
                    s1 \in Strs, s2 \in Strs}
     \/ call \in {[fn |-> "string_similarity", args |-> <<s1, s2>>, done |-> FALSE, ret |-> FZero] :
                    s1 \in Strs, s2 \in Strs}

\* levenshtein_distance(s1, s2) returns
CallLevenshtein ==
  /\ call.fn = "levenshtein_distance"
  /\ ~call.done
  /\ call' = [call EXCEPT !.done = TRUE,
                          !.ret = levenshtein_distance(call.args[1], call.args[2])]
  /\ UNCHANGED engine_vars

NextLevenshtein == CallLevenshtein \/ CallStringSimilarity

SpecLevenshtein == InitLevenshtein /\ [][NextLevenshtein]_vars

(***************************************************************************)
(* Properties                                                              *)
(***************************************************************************)
\* 0.0 <= x <= 1.0
InUnit(x) == x.d > 0 /\ 0 <= x.n /\ x.n <= x.d

\* total == 0.30*tag + 0.20*title + 0.15*category + 0.35*content, over the
\* common denominator 100 * D
IsWeightedSum(s) ==
  LET D == s.tag.d * s.title.d * s.category.d * s.content.d
  IN  s.total.n * 100 * D =
        s.total.d * ( 30 * s.tag.n * (D \div s.tag.d)
                    + 20 * s.title.n * (D \div s.title.d)
                    + 15 * s.category.n * (D \div s.category.d)
                    + 35 * s.content.n * (D \div s.content.d) )

\* C1: every score returned by _calculate_similarity has its four sub-scores
\* and its total in [0.0, 1.0], and its total is the weighted sum
\* 0.30*tag + 0.20*title + 0.15*category + 0.35*content.
C1_WeightedTotal ==
  (call.fn = "_calculate_similarity" /\ call.done /\ ~call.raised) =>
    LET s == call.ret
    IN  /\ InUnit(s.tag) /\ InUnit(s.title) /\ InUnit(s.category) /\ InUnit(s.content)
        /\ InUnit(s.total)
        /\ IsWeightedSum(s)

\* the position in the corpus of the pattern with this identifier
Idx(file) == CHOOSE k \in DOMAIN patterns : patterns[k].file = file

\* t <= x, written out
AtLeast(x, t) == t.n * x.d <= x.n * t.d

\* C2: in all-pairs mode every unordered pair of corpus documents is
\* evaluated exactly once, as (i, j) with i < j, and the result list holds
\* no unordered pair twice and no document against itself.
C2_EachPairOnce ==
  mode = "all_pairs" =>
    /\ \A a \in DOMAIN evaluated : Idx(evaluated[a].file1) < Idx(evaluated[a].file2)
    /\ \A a, b \in DOMAIN evaluated :
         a # b => {evaluated[a].file1, evaluated[a].file2}
                    # {evaluated[b].file1, evaluated[b].file2}
    /\ \A a \in DOMAIN results : results[a].pattern1 # results[a].pattern2
    /\ \A a, b \in DOMAIN results :
         a # b => {results[a].pattern1, results[a].pattern2}
                    # {results[b].pattern1, results[b].pattern2}
    /\ pc = "done" =>
         \A x, y \in DOMAIN patterns :
           x < y => \E a \in DOMAIN evaluated :
                      /\ evaluated[a].file1 = patterns[x].file
                      /\ evaluated[a].file2 = patterns[y].file

\* an all-pairs run over three documents has returned at least two results
C2_Witness ==
  /\ mode = "all_pairs"
  /\ pc = "done"
  /\ Len(patterns) >= 3
  /\ Len(results) >= 2

\* C3: one-vs-corpus mode never compares the candidate with, nor returns, a
\* corpus document that has the candidate's identifier.
C3_SelfExcluded ==
  mode = "one_vs_corpus" =>
    /\ \A a \in DOMAIN results : results[a].existing_file # new_pattern.file
    /\ \A a \in DOMAIN evaluated : evaluated[a].file2 # new_pattern.file

\* a one-vs-corpus run has returned results although the corpus holds a
\* document with the candidate's identifier that scores at or above the threshold
C3_Witness ==
  /\ mode = "one_vs_corpus"
  /\ pc = "done"
  /\ results # <<>>
  /\ \E k \in DOMAIN patterns :
       /\ patterns[k].file = new_pattern.file
       /\ ~CalculateRaises(new_pattern, patterns[k])
       /\ AtLeast(_calculate_similarity(new_pattern, patterns[k]).total, threshold)

\* the results all-pairs mode is to return, as a set: the evaluated pairs
\* whose total is at least the threshold
ExpectedAllPairs ==
  { [pattern1 |-> e.file1, pattern2 |-> e.file2,
     title1 |-> patterns[Idx(e.file1)].title, title2 |-> patterns[Idx(e.file2)].title,
     similarity |-> e.similarity] :
      e \in {x \in Range(evaluated) : AtLeast(x.similarity.total, threshold)} }

\* the results one-vs-corpus mode is to return, as a set
ExpectedOneVsCorpus ==
  { [existing_file |-> e.file2, existing_title |-> patterns[Idx(e.file2)].title,
     similarity |-> e.similarity] :
      e \in {x \in Range(evaluated) : AtLeast(x.similarity.total, threshold)} }

\* every corpus document with another identifier than the candidate's has
\* been compared with the candidate, once
AllOthersCompared ==
  /\ \A k \in DOMAIN patterns :
       patterns[k].file # new_pattern.file =>
         \E a \in DOMAIN evaluated :
           /\ evaluated[a].file1 = new_pattern.file
           /\ evaluated[a].file2 = patterns[k].file
  /\ \A a, b \in DOMAIN evaluated : a # b => evaluated[a].file2 # evaluated[b].file2

\* C4: a returned list holds exactly the compared pairs whose total is at
\* least the threshold: every pair i < j in all-pairs mode, every corpus
\* document with another identifier than the candidate's in one-vs-corpus
\* mode; and the threshold is 0.5 when none is given.
C4_ExactlyAtLeastThreshold ==
  /\ threshold_arg = <<>> => threshold = [n |-> 1, d |-> 2]
  /\ pc = "done" =>
       /\ Len(results) = Cardinality(Range(results))
       /\ mode = "all_pairs" => Range(results) = ExpectedAllPairs
       /\ (mode = "one_vs_corpus" /\ new_pattern # NoPattern) =>
            /\ AllOthersCompared
            /\ Range(results) = ExpectedOneVsCorpus

\* a run without --threshold has returned a pair whose total is exactly 0.5
\* and has left out an evaluated pair whose total is below
C4_Witness ==
  /\ pc = "done"
  /\ threshold_arg = <<>>
  /\ \E a \in DOMAIN results : results[a].similarity.total = threshold
  /\ \E a \in DOMAIN evaluated : ~AtLeast(evaluated[a].similarity.total, threshold)

\* the place of a result in the order in which results are produced
Produced(r) ==
  IF mode = "all_pairs" THEN <<Idx(r.pattern1), Idx(r.pattern2)>>
  ELSE <<0, Idx(r.existing_file)>>

LexLess(p, q) == p[1] < q[1] \/ (p[1] = q[1] /\ p[2] < q[2])

\* C5: a returned list is in non-increasing order of total, and results of
\* equal total are in the order in which they were produced: corpus order
\* in one-vs-corpus mode, (i, j) order in all-pairs mode.
C5_SortedStable ==
  pc = "done" =>
    \A a, b \in DOMAIN results :
      a < b =>
        /\ AtLeast(results[a].similarity.total, results[b].similarity.total)
        /\ results[a].similarity.total = results[b].similarity.total
             => LexLess(Produced(results[a]), Produced(results[b]))

\* a returned list holds two results of equal total, and two results that
\* the sort has put in the reverse of their production order
C5_Witness ==
  /\ pc = "done"
  /\ \E a, b \in DOMAIN results :
       a < b /\ results[a].similarity.total = results[b].similarity.total
  /\ \E a, b \in DOMAIN results :
       a < b /\ LexLess(Produced(results[b]), Produced(results[a]))

\* the thresholds a run is compared with
GridSteps == 4

ThresholdGrid == {Frac(k, GridSteps) : k \in 0..GridSteps}

\* the list the finished run would have returned with threshold t
RunWith(t) ==
  IF mode = "all_pairs" THEN check_all_similarities(patterns, t)
  ELSE compare_to_pattern(patterns, new_pattern, t)

\* C6: for the same corpus and candidate, the results returned with a
\* threshold t2 are a subset of those returned with any threshold t1 <= t2,
\* in both modes.
C6_ThresholdMonotone ==
  (pc = "done" /\ (mode = "one_vs_corpus" => new_pattern # NoPattern)) =>
    /\ results = RunWith(threshold)
    /\ \A t \in ThresholdGrid :
         /\ AtLeast(t, threshold) => Range(RunWith(t)) \subseteq Range(results)
         /\ AtLeast(threshold, t) => Range(results) \subseteq Range(RunWith(t))

\* a run has returned results of which a higher threshold would return some
\* but not all
C6_Witness ==
  /\ pc = "done"
  /\ mode = "one_vs_corpus" => new_pattern # NoPattern
  /\ \E t \in ThresholdGrid :
       /\ AtLeast(t, threshold)
       /\ RunWith(t) # <<>>
       /\ Range(RunWith(t)) # Range(results)

\* the place of a band in the order OK < RELATED < CHECK < REVIEW < MERGE
Severity(action) ==
  CASE action = "OK" -> 0
    [] action = "RELATED" -> 1
    [] action = "CHECK" -> 2
    [] action = "REVIEW" -> 3
    [] action = "MERGE" -> 4

\* h / 100 <= x
AtLeastHundredths(x, h) == h * x.d <= 100 * x.n

\* C7: suggest_action returns MERGE for total >= 0.80, REVIEW for
\* 0.70 <= total < 0.80, CHECK for 0.60 <= total < 0.70, RELATED for
\* 0.50 <= total < 0.60 and OK for total < 0.50, whatever the sub-scores,
\* and a larger total never gets a band of lower severity.
C7_Bands ==
  (call.fn = "suggest_action" /\ call.done) =>
    LET total == call.args[1].total
    IN  /\ call.ret = "MERGE" <=> AtLeastHundredths(total, 80)
        /\ call.ret = "REVIEW" <=>
             AtLeastHundredths(total, 70) /\ ~AtLeastHundredths(total, 80)
        /\ call.ret = "CHECK" <=>
             AtLeastHundredths(total, 60) /\ ~AtLeastHundredths(total, 70)
        /\ call.ret = "RELATED" <=>
             AtLeastHundredths(total, 50) /\ ~AtLeastHundredths(total, 60)
        /\ call.ret = "OK" <=> ~AtLeastHundredths(total, 50)
        /\ \A sim \in SimilarityDicts :
             AtLeast(sim.total, total) =>
               Severity(suggest_action(sim)) >= Severity(call.ret)

\* suggest_action has returned MERGE for a total of exactly 0.80
C7_Witness ==
  /\ call.fn = "suggest_action"
  /\ call.done
  /\ call.args[1].total = [n |-> 4, d |-> 5]
  /\ call.ret = "MERGE"

\* C8: no result returned by either mode is classified OK by suggest_action.
C8_NoReportedOK ==
  pc = "done" =>
    \A a \in DOMAIN results : suggest_action(results[a].similarity) # "OK"

\* the file has a metadata block: a first line '---' and a later line '---'
\* (the conditions under which parse_front_matter reads any key)
HasMetadataBlock(file) ==
  /\ file.readable
  /\ file.lines # <<>>
  /\ Strip(file.lines[1]) = S_dashes
  /\ FrontMatterEnd(file.lines) # 0

\* C9: a file without a parsable metadata block is not in the loaded corpus,
\* and is in no comparison and no result.
C9_NoMetadataExcluded ==
  \A k \in DOMAIN fs :
    (fs[k].name # TemplateName /\ ~HasMetadataBlock(fs[k].file)) =>
      /\ \A m \in DOMAIN patterns : patterns[m].file # fs[k].name
      /\ \A a \in DOMAIN evaluated :
           /\ evaluated[a].file2 # fs[k].name
           /\ mode = "all_pairs" => evaluated[a].file1 # fs[k].name
      /\ \A a \in DOMAIN results :
           /\ mode = "all_pairs" =>
                results[a].pattern1 # fs[k].name /\ results[a].pattern2 # fs[k].name
           /\ mode = "one_vs_corpus" => results[a].existing_file # fs[k].name

\* C10: jaccard_similarity(A, B) equals jaccard_similarity(B, A) and lies in
\* [0.0, 1.0].
C10_JaccardSymmetricBounded ==
  (call.fn = "jaccard_similarity" /\ call.done) =>
    /\ call.ret = jaccard_similarity(call.args[2], call.args[1])
    /\ InUnit(call.ret)

\* jaccard_similarity has returned a value strictly between 0 and 1 for two
\* sets of different sizes
C10_Witness ==
  /\ call.fn = "jaccard_similarity"
  /\ call.done
  /\ Cardinality(call.args[1]) # Cardinality(call.args[2])
  /\ 0 < call.ret.n
  /\ call.ret.n < call.ret.d

\* C11: jaccard_similarity(A, A) is 1.0 for every non-empty A;
\* jaccard_similarity(A, B) is 0.0 whenever A or B is empty, both empty
\* included; otherwise it is |A intersect B| / |A union B|.
C11_JaccardValue ==
  (call.fn = "jaccard_similarity" /\ call.done) =>
    LET A == call.args[1]
        B == call.args[2]
    IN  /\ (A # {} /\ A = B) => call.ret = FOne
        /\ (A = {} \/ B = {}) => call.ret = FZero
        /\ (A # {} /\ B # {}) =>
             /\ call.ret.d > 0
             /\ call.ret.n * Cardinality(A \cup B) = call.ret.d * Cardinality(A \cap B)

\* jaccard_similarity has returned 1.0 for a non-empty set against itself
C11_Witness ==
  /\ call.fn = "jaccard_similarity"
  /\ call.done
  /\ call.args[1] # {}
  /\ call.args[1] = call.args[2]
  /\ call.ret = FOne

\* C12: string_similarity(s, s) is 1.0 for every non-empty s, and for all
\* s1, s2 string_similarity(s1, s2) equals string_similarity(s2, s1) and lies
\* in [0.0, 1.0].
C12_StringSimilarityBounded ==
  (call.fn = "string_similarity" /\ call.done) =>
    LET s1 == call.args[1]
        s2 == call.args[2]
    IN  /\ (s1 # <<>> /\ s1 = s2) => call.ret = FOne
        /\ call.ret = string_similarity(s2, s1)
        /\ InUnit(call.ret)

\* C13: string_similarity returns 0.0 if exactly one of the strings is
\* empty, and 1.0 if both are empty.
C13_EmptyStrings ==
  (call.fn = "string_similarity" /\ call.done) =>
    LET s1 == call.args[1]
        s2 == call.args[2]
    IN  /\ ((s1 = <<>>) # (s2 = <<>>)) => call.ret = FZero
        /\ (s1 = <<>> /\ s2 = <<>>) => call.ret = FOne

\* the two documents have identical non-empty str titles, identical non-empty
\* tag sets, identical categories, and identical non-empty problem and
\* solution texts
ScenarioA(pattern1, pattern2) ==
  /\ ~pattern1.title.list /\ pattern1.title.s # <<>>
  /\ pattern1.title = pattern2.title
  /\ Range(pattern1.tags) # {}
  /\ Range(pattern1.tags) = Range(pattern2.tags)
  /\ pattern1.category = pattern2.category
  /\ \A section \in {"problem", "solution"} :
       /\ section \in DOMAIN pattern1.sections \cap DOMAIN pattern2.sections
       /\ pattern1.sections[section] # <<>>
       /\ pattern1.sections[section] = pattern2.sections[section]

\* every sub-score and the total are 1.0, and the band is MERGE
AllOnesMerge(sim) ==
  /\ sim.tag = FOne /\ sim.title = FOne /\ sim.category = FOne /\ sim.content = FOne
  /\ sim.total = FOne
  /\ suggest_action(sim) = "MERGE"

\* C14 as stated: Scenario A: two documents with identical non-empty titles,
\* identical non-empty tag sets, identical category and identical non-empty
\* problem/solution text score tag = title = category = content = 1.0 and
\* total = 1.0, and are classified MERGE.
C14_ScenarioA_AsStated ==
  (call.fn = "_calculate_similarity" /\ call.done
     /\ ScenarioA(call.args[1], call.args[2])) =>
    /\ ~call.raised
    /\ AllOnesMerge(call.ret)

\* C14, amended: the same, for documents whose problem/solution text holds
\* at least one token (a word of more than 3 characters that is not a stop
\* word).
C14_ScenarioA ==
  (call.fn = "_calculate_similarity" /\ call.done
     /\ ScenarioA(call.args[1], call.args[2])
     /\ ContentTokens(call.args[1]) # {}) =>
    /\ ~call.raised
    /\ AllOnesMerge(call.ret)

\* a score has been returned for two such documents with different file names
C14_Witness ==
  /\ call.fn = "_calculate_similarity"
  /\ call.done
  /\ ScenarioA(call.args[1], call.args[2])
  /\ ContentTokens(call.args[1]) # {}
  /\ call.args[1].file # call.args[2].file
  /\ call.ret.total = FOne

\* the two documents, with str titles, share no tag, have different
\* categories, and share no token of their problem/solution text
ScenarioB(pattern1, pattern2) ==
  /\ ~pattern1.title.list /\ ~pattern2.title.list
  /\ Range(pattern1.tags) \cap Range(pattern2.tags) = {}
  /\ pattern1.category # pattern2.category
  /\ ContentTokens(pattern1) \cap ContentTokens(pattern2) = {}

\* C15: Scenario B: two documents sharing zero tags, with different
\* categories and disjoint problem/solution token sets have tag = 0.0,
\* category = 0.0 and content = 0.0, so total = 0.20 * title, which is below
\* 0.50 whatever the titles; the pair is classified OK and is in the results
\* of neither mode at the default threshold 0.5.
C15_ScenarioB ==
  (call.fn = "_calculate_similarity" /\ call.done
     /\ ScenarioB(call.args[1], call.args[2])) =>
    /\ ~call.raised
    /\ call.ret.tag = FZero /\ call.ret.category = FZero /\ call.ret.content = FZero
    /\ call.ret.total = FMul(Dec(20), call.ret.title)
    /\ FLt(call.ret.total, Dec(50))
    /\ suggest_action(call.ret) = "OK"
    /\ check_all_similarities(<<call.args[1], call.args[2]>>, DefaultThreshold) = <<>>
    /\ compare_to_pattern(<<call.args[2]>>, call.args[1], DefaultThreshold) = <<>>

\* a score has been returned for two such documents with equal titles and
\* non-empty tag sets and token sets: the total is 0.20
C15_Witness ==
  /\ call.fn = "_calculate_similarity"
  /\ call.done
  /\ ScenarioB(call.args[1], call.args[2])
  /\ Range(call.args[1].tags) # {} /\ Range(call.args[2].tags) # {}
  /\ ContentTokens(call.args[1]) # {} /\ ContentTokens(call.args[2]) # {}
  /\ call.ret.title = FOne
  /\ call.ret.total = Dec(20)

\* the document has no Problem and no Solution section
NoContentSections(pattern) ==
  DOMAIN pattern.sections \cap {"problem", "solution"} = {}

FirstOf(e) == IF mode = "one_vs_corpus" THEN new_pattern ELSE patterns[Idx(e.file1)]

\* the zero that each metric returns for a document without tags, without a
\* title, or without problem/solution tokens
DegenerateZeros(pattern, sim) ==
  /\ Range(pattern.tags) = {} => sim.tag = FZero
  /\ ~Truthy(pattern.title) => sim.title = FZero
  /\ ContentTokens(pattern) = {} => sim.content = FZero

\* C17: the comparison path is total: for every pair of loaded documents,
\* documents with an empty tag set, title, category or section text
\* included, _calculate_similarity, the loop of compare_to_pattern and
\* check_all_similarities return and never reach an error state, and
\* degenerate inputs yield the zero of each metric.
C17_ComparisonTotal ==
  /\ pc # "error"
  /\ \A k \in DOMAIN evaluated :
       /\ DegenerateZeros(FirstOf(evaluated[k]), evaluated[k].similarity)
       /\ DegenerateZeros(patterns[Idx(evaluated[k].file2)], evaluated[k].similarity)

\* the marker a fence line starts with, "" for another line
FenceMarker(line) ==
  IF StartsWith(Strip(line), S_backticks) THEN "backticks"
  ELSE IF StartsWith(Strip(line), S_tildes) THEN "tildes"
  ELSE ""

\* the lines without the fence lines and without the lines between an opening
\* fence and its closing fence, the next fence line with the same marker
RECURSIVE WithoutFenced(_)
WithoutFenced(lines) ==
  IF lines = <<>> THEN <<>>
  ELSE IF FenceMarker(Head(lines)) = "" THEN <<Head(lines)>> \o WithoutFenced(Tail(lines))
  ELSE LET closes == {k \in 2..Len(lines) : FenceMarker(lines[k]) = FenceMarker(Head(lines))}
       IN  IF closes = {} THEN WithoutFenced(Tail(lines))
           ELSE LET close == CHOOSE k \in closes : \A m \in closes : k <= m
                IN  WithoutFenced(SubSeq(lines, close + 1, Len(lines)))

\* C18: extract_sections skips the lines of a fenced code block, the fence
\* lines included: no fence line and no line between an opening fence and
\* its closing fence contributes to a section, so the sections of a file
\* are those of the file with its fenced blocks and fence lines deleted.
C18_FencedLinesSkipped ==
  (call.fn = "extract_sections" /\ call.done) =>
    call.ret = extract_sections(WithoutFenced(call.args[1]))

\* w is a maximal run of word characters of s
IsMaximalRun(w, s) ==
  \E a \in 1..Len(s) :
    /\ a + Len(w) - 1 <= Len(s)
    /\ w # <<>>
    /\ w = SubSeq(s, a, a + Len(w) - 1)
    /\ \A m \in DOMAIN w : IsWordChar(w[m])
    /\ a = 1 \/ ~IsWordChar(s[a - 1])
    /\ a + Len(w) - 1 = Len(s) \/ ~IsWordChar(s[a + Len(w)])

\* all the substrings of s
Substrings(s) == {SubSeq(s, a, b) : a \in 1..Len(s), b \in 1..Len(s)}

\* C19: tokenize returns exactly the set of the words of the lower-cased
\* text (its maximal runs of word characters) that are longer than 3
\* characters and are not stop words; every returned token is lower-case,
\* longer than 3 characters and not a stop word; an empty or whitespace-only
\* text gives the empty set.
C19_TokenizeExact ==
  (call.fn = "tokenize" /\ call.done) =>
    LET text == call.args[1]
        lowered == LowerStr(text)
    IN  /\ call.ret = {w \in Substrings(lowered) :
                         IsMaximalRun(w, lowered) /\ Len(w) > 3 /\ w \notin stop_words}
        /\ \A w \in call.ret :
             /\ LowerStr(w) = w
             /\ Len(w) > 3
             /\ w \notin stop_words
        /\ (\A k \in DOMAIN text : text[k] \in Whitespace) => call.ret = {}

\* tokenize has returned a token for a text that also holds a stop word and an
\* upper-case letter
C19_Witness ==
  /\ call.fn = "tokenize"
  /\ call.done
  /\ call.ret # {}
  /\ \E w \in Substrings(LowerStr(call.args[1])) :
       IsMaximalRun(w, LowerStr(call.args[1])) /\ Len(w) > 3 /\ w \in stop_words
  /\ \E k \in DOMAIN call.args[1] : call.args[1][k] = "T"

\* C20: the category sub-score is 1.0 exactly when the category strings of
\* the two documents are equal, compared with regard to case, two empty
\* categories included, and 0.0 otherwise; it has no other value.
C20_CategoryExact ==
  (call.fn = "_calculate_similarity" /\ call.done /\ ~call.raised) =>
    /\ call.ret.category \in {FZero, FOne}
    /\ call.ret.category = FOne <=> call.args[1].category = call.args[2].category

\* a score has been returned with category 0.0 for two documents whose
\* categories differ only in case
C20_Witness ==
  /\ call.fn = "_calculate_similarity"
  /\ call.done
  /\ ~call.raised
  /\ call.args[1].category # call.args[2].category
  /\ LowerStr(call.args[1].category.s) = LowerStr(call.args[2].category.s)
  /\ call.ret.category = FZero

\* two values of cosine_similarity are equal: n1 / sqrt(a1 * b1) = n2 / sqrt(a2 * b2)
CosEq(x, y) == x.n * x.n * y.a * y.b = y.n * y.n * x.a * x.b

\* C21: cosine_similarity(A, B) equals cosine_similarity(B, A) for all sets
\* and is 0.0 when either set is empty; it is not part of the total: the
\* total of _calculate_similarity is the weighted sum of the tag, title,
\* category and content sub-scores alone.
C21_CosineCommutativeUnused ==
  /\ (call.fn = "cosine_similarity" /\ call.done) =>
       /\ CosEq(call.ret, cosine_similarity(call.args[2], call.args[1]))
       /\ (call.args[1] = {} \/ call.args[2] = {}) => call.ret = CosZero
  /\ (call.fn = "_calculate_similarity" /\ call.done /\ ~call.raised) =>
       IsWeightedSum(call.ret)

\* cosine_similarity has returned a value other than 0 and 1 for two sets of
\* different sizes
C21_Witness ==
  /\ call.fn = "cosine_similarity"
  /\ call.done
  /\ Cardinality(call.args[1]) # Cardinality(call.args[2])
  /\ call.ret.n > 0
  /\ ~CosEq(call.ret, [n |-> 1, a |-> 1, b |-> 1])

\* the classic edit distance: the least number of insertions, deletions and
\* substitutions of one character that turn s into t
RECURSIVE EditDistance(_, _)
EditDistance(s, t) ==
  IF s = <<>> THEN Len(t)
  ELSE IF t = <<>> THEN Len(s)
  ELSE Min3(EditDistance(Tail(s), t) + 1,
            EditDistance(s, Tail(t)) + 1,
            EditDistance(Tail(s), Tail(t)) + (IF Head(s) = Head(t) THEN 0 ELSE 1))

\* C22: levenshtein_distance(s1, s2) is the classic edit distance for all
\* strings, s1 shorter than s2 and empty strings included; and for two
\* non-empty strings string_similarity is
\* 1 - levenshtein_distance(lower(s1), lower(s2)) / max(len(s1), len(s2)),
\* so that strings differing only in letter case score 1.0.
C22_EditDistance ==
  /\ (call.fn = "levenshtein_distance" /\ call.done) =>
       call.ret = EditDistance(call.args[1], call.args[2])
  /\ (call.fn = "string_similarity" /\ call.done
        /\ call.args[1] # <<>> /\ call.args[2] # <<>>) =>
       LET s1 == call.args[1]
           s2 == call.args[2]
           max_len == Max(Len(s1), Len(s2))
       IN  /\ call.ret = Frac(max_len - EditDistance(LowerStr(s1), LowerStr(s2)), max_len)
           /\ LowerStr(s1) = LowerStr(s2) => call.ret = FOne

\* levenshtein_distance has returned a distance that is neither 0 nor the
\* length of the longer string, for a first string shorter than the second
C22_Witness ==
  /\ call.fn = "levenshtein_distance"
  /\ call.done
  /\ Len(call.args[1]) < Len(call.args[2])
  /\ 0 < call.ret
  /\ call.ret < Len(call.args[2])

\* the positions of the second-level headers of a file
Headers(lines) == {k \in DOMAIN lines : StartsWith(lines[k], S_header)}

\* the header at position k and the lines up to the next header
Block(lines, k) ==
  LET later == {m \in Headers(lines) : m > k}
      next == IF later = {} THEN Len(lines) + 1
              ELSE CHOOSE m \in later : \A n \in later : m <= n
  IN  SubSeq(lines, k, next - 1)

\* the text each canonical key is matched by
KeyMarkers ==
  [problem |-> S_problem, solution |-> S_solution,
   how_to_use |-> S_how_to_use, trade_offs |-> S_trade_off]

\* the text of the header line contains the marker of key x, whatever the case
HeaderMatches(line, x) ==
  Contains(LowerStr(SubSeq(line, 4, Len(line))), KeyMarkers[x])

\* the file without the lines before its first header and without the
\* blocks of the headers that match no key
RECURSIVE KeepMatching(_, _)
KeepMatching(lines, k) ==
  IF k > Len(lines) THEN <<>>
  ELSE IF k \in Headers(lines)
  THEN (IF \E x \in DOMAIN KeyMarkers : HeaderMatches(lines[k], x)
        THEN Block(lines, k) ELSE <<>>)
       \o KeepMatching(lines, k + Len(Block(lines, k)))
  ELSE KeepMatching(lines, k + 1)

\* C23: extract_sections scans the lines one by one: each second-level
\* header closes the open section and opens a new one, so the text of a key
\* is that of one header's block; a header gets the key problem, solution,
\* how_to_use or trade_offs whose marker its text contains, whatever the
\* case; the lines before the first header and after a header that matches
\* no key are discarded; the mapping has only canonical keys, and is empty,
\* without an error, when no header matches.
C23_SectionScan ==
  (call.fn = "extract_sections" /\ call.done) =>
    LET lines == call.args[1]
        sections == call.ret
    IN  /\ DOMAIN sections \subseteq DOMAIN KeyMarkers
        /\ \A x \in DOMAIN sections :
             \E k \in Headers(lines) :
               /\ HeaderMatches(lines[k], x)
               /\ sections[x] = extract_sections(Block(lines, k))[x]
        /\ \A k \in Headers(lines) :
             (\E x \in DOMAIN KeyMarkers : HeaderMatches(lines[k], x)) =>
               \E x \in DOMAIN sections : HeaderMatches(lines[k], x)
        /\ sections = extract_sections(KeepMatching(lines, 1))
        /\ (\A k \in Headers(lines), x \in DOMAIN KeyMarkers : ~HeaderMatches(lines[k], x))
             => sections = NoSections

\* extract_sections has returned a section for a header written in upper
\* case, from a file with a line of text before its first header and with a
\* header that matches no key
C23_Witness ==
  /\ call.fn = "extract_sections"
  /\ call.done
  /\ "how_to_use" \in DOMAIN call.ret
  /\ call.args[1] # <<>>
  /\ 1 \notin Headers(call.args[1])
  /\ \E k \in Headers(call.args[1]) :
       \A x \in DOMAIN KeyMarkers : ~HeaderMatches(call.args[1][k], x)

\* the positions of the headers that get the key x
HeadersOf(lines, x) ==
  {k \in Headers(lines) : x \in DOMAIN extract_sections(Block(lines, k))}

\* C30: when two or more headers of a document get the same key, the
\* mapping holds the text of the last of their sections only, the earlier
\* text being overwritten; and a matching header with no content line after
\* it yields its key with the empty text.
C30_LastSectionWins ==
  (call.fn = "extract_sections" /\ call.done) =>
    LET lines == call.args[1]
    IN  \A x \in DOMAIN KeyMarkers :
          HeadersOf(lines, x) # {} =>
            LET last == CHOOSE k \in HeadersOf(lines, x) : \A m \in HeadersOf(lines, x) : m <= k
            IN  /\ x \in DOMAIN call.ret
                /\ call.ret[x] = extract_sections(Block(lines, last))[x]
                /\ Len(Block(lines, last)) = 1 => call.ret[x] = <<>>

\* extract_sections has returned the empty text for a key whose first
\* section has text and whose last section has no line
C30_Witness ==
  /\ call.fn = "extract_sections"
  /\ call.done
  /\ \E x \in DOMAIN call.ret :
       /\ call.ret[x] = <<>>
       /\ \E k, m \in HeadersOf(call.args[1], x) :
            /\ k < m
            /\ extract_sections(Block(call.args[1], k))[x] # <<>>
            /\ Len(Block(call.args[1], m)) = 1

\* the tokens of one section of a document, none if it has no such section
SectionTokens(pattern, section) ==
  IF section \in DOMAIN pattern.sections THEN tokenize(pattern.sections[section]) ELSE {}

\* q is p but for its how_to_use and trade_offs sections
SameButOtherSections(p, q) ==
  /\ p.file = q.file /\ p.title = q.title /\ p.tags = q.tags /\ p.category = q.category
  /\ \A section \in {"problem", "solution"} :
       /\ section \in DOMAIN p.sections <=> section \in DOMAIN q.sections
       /\ section \in DOMAIN p.sections => p.sections[section] = q.sections[section]

\* C24: the content sub-score is the Jaccard similarity of, for each
\* document, the union of the token sets of its problem and solution
\* sections, an absent section contributing nothing; two pairs of documents
\* that differ only in the text of their how_to_use or trade_offs sections
\* get the same sub-scores and the same total.
C24_ContentFromProblemSolution ==
  (call.fn = "_calculate_similarity" /\ call.done /\ ~call.raised) =>
    LET pattern1 == call.args[1]
        pattern2 == call.args[2]
    IN  /\ call.ret.content =
             jaccard_similarity(
               SectionTokens(pattern1, "problem") \cup SectionTokens(pattern1, "solution"),
               SectionTokens(pattern2, "problem") \cup SectionTokens(pattern2, "solution"))
        /\ \A other1 \in {q \in FirstPatterns : SameButOtherSections(pattern1, q)} :
             \A other2 \in {q \in SecondPatterns : SameButOtherSections(pattern2, q)} :
               /\ ~CalculateRaises(other1, other2)
               /\ _calculate_similarity(other1, other2) = call.ret

\* a score with a content sub-score strictly between 0 and 1 has been returned
\* for a document with a trade_offs section whose words are those of the
\* other document's problem, and the scenario files hold the same document
\* without that section
C24_Witness ==
  /\ call.fn = "_calculate_similarity"
  /\ call.done
  /\ ~call.raised
  /\ "trade_offs" \in DOMAIN call.args[1].sections
  /\ SectionTokens(call.args[1], "trade_offs") \cap SectionTokens(call.args[2], "problem") # {}
  /\ \E q \in FirstPatterns :
       SameButOtherSections(call.args[1], q) /\ q.sections # call.args[1].sections
  /\ 0 < call.ret.content.n
  /\ call.ret.content.n < call.ret.content.d

(***************************************************************************)
(* C25: once loaded, the corpus is read-only.  No step of a call of        *)
(* compare_to_pattern or check_all_similarities, and no sequence of such   *)
(* calls, changes self.patterns (its length, its order, any field of any   *)
(* document) or self.threshold; and while the candidate is being compared  *)
(* it is not changed either.                                               *)
(***************************************************************************)
C25_CorpusReadOnly ==
  [][pc # "loading" =>
       /\ patterns' = patterns
       /\ threshold' = threshold
       /\ (pc = "running" => new_pattern' = new_pattern)]_vars

\* an all-pairs call has evaluated pairs of a corpus of three documents,
\* flagged some of them, sorted the flagged pairs and returned
C25_Witness ==
  /\ pc = "done"
  /\ mode = "all_pairs"
  /\ Len(patterns) = 3
  /\ Len(results) >= 2
  /\ Len(evaluated) = 3

(***************************************************************************)
(* C26: loading is strictly ordered before comparison.  Whenever a call    *)
(* is running, has returned or has raised, the glob loop is over and every *)
(* file of the directory is the template, a document of the corpus or a    *)
(* skipped file with its warning; a pair evaluated in one-vs-corpus mode   *)
(* has the candidate that was read at the start of the call as its first   *)
(* document; and no step of a running call reads a file: the directory     *)
(* position, the corpus, the warnings and the candidate stay as they are.  *)
(***************************************************************************)
C26_LoadBeforeCompare ==
  /\ [](pc \in {"running", "done", "error"} =>
          /\ li = Len(fs) + 1
          /\ Len(patterns) + Len(warnings)
               + Cardinality({k \in DOMAIN fs : fs[k].name = TemplateName}) = Len(fs)
          /\ (mode = "one_vs_corpus" /\ evaluated # <<>> =>
                /\ new_pattern # NoPattern
                /\ \A k \in DOMAIN evaluated : evaluated[k].file1 = new_pattern.file))
  /\ [][pc = "running" =>
          /\ li' = li
          /\ fs' = fs
          /\ patterns' = patterns
          /\ warnings' = warnings
          /\ new_pattern' = new_pattern]_vars

\* a candidate has been compared with two documents of a corpus that was
\* loaded from a directory with a file that could not be read
C26_Witness ==
  /\ pc = "running"
  /\ mode = "one_vs_corpus"
  /\ warnings # <<>>
  /\ Len(patterns) = 2
  /\ Len(evaluated) = 2

(***************************************************************************)
(* The all-pairs run with the order of the pair evaluations left open: the *)
(* body of the inner loop of check_all_similarities is applied to the      *)
(* pairs (i, j), i < j, one at a time in any order, then the list is       *)
(* sorted and returned.                                                    *)
(***************************************************************************)
OrderPool == {FileFull, FileNear, FileListTitle}

InitAnyOrder ==
  /\ Init
  /\ \A k \in DOMAIN fs : fs[k].name = TemplateName \/ fs[k].file \in OrderPool
  /\ threshold_arg \in {<<>>, <<Dec(100)>>}

\* the pairs of positions the two loops visit
LoopPairs == {pair \in (DOMAIN patterns) \X (DOMAIN patterns) : pair[2] >= FirstInner(pair[1])}

\* the pairs that have not been evaluated yet
PendingPairs ==
  {pair \in LoopPairs :
     \A k \in DOMAIN evaluated :
       ~(/\ evaluated[k].file1 = patterns[pair[1]].file
         /\ evaluated[k].file2 = patterns[pair[2]].file)}

\* the body of the inner loop for one pending pair
AnyOrderStep ==
  /\ pc = "running"
  /\ mode = "all_pairs"
  /\ \E pair \in PendingPairs :
       LET pattern1 == patterns[pair[1]]
           pattern2 == patterns[pair[2]]
       IN  IF CalculateRaises(pattern1, pattern2)
           THEN /\ pc' = "error"
                /\ UNCHANGED <<results, evaluated>>
           ELSE /\ evaluated' = Append(evaluated,
                      [file1 |-> pattern1.file, file2 |-> pattern2.file,
                       similarity |-> _calculate_similarity(pattern1, pattern2)])
                /\ results' = AllPairsBody(results, pattern1, pattern2, threshold)
                /\ UNCHANGED pc
  /\ UNCHANGED <<call, fs, threshold_arg, threshold, mode, li, patterns, warnings, new_pattern,
                 i, j>>

\* every pair has been evaluated: sort and return
AnyOrderFinish ==
  /\ pc = "running"
  /\ mode = "all_pairs"
  /\ PendingPairs = {}
  /\ results' = SortResults(results)
  /\ pc' = "done"
  /\ UNCHANGED <<call, fs, threshold_arg, threshold, mode, li, patterns, warnings, new_pattern, i, j,
                 evaluated>>

NextAnyOrder ==
  \/ LoadStep
  \/ LoadReturn
  \/ StartAll
  \/ AnyOrderStep
  \/ AnyOrderFinish

SpecAnyOrder == InitAnyOrder /\ [][NextAnyOrder]_vars

\* the totals of a list of results, in list order
Totals(rs) == [k \in DOMAIN rs |-> rs[k].similarity.total]

(***************************************************************************)
(* C27: pair evaluations are independent.  In whatever order the pairs of  *)
(* an all-pairs run are evaluated, each evaluation yields the score of its *)
(* two documents alone, and the returned list has the same flagged pairs   *)
(* with the same scores as the list the nested loops return, and the same  *)
(* non-increasing sequence of totals.                                      *)
(***************************************************************************)
C27_OrderIndependent ==
  /\ evaluated # <<>> =>
       LET last == evaluated[Len(evaluated)]
       IN  \E pair \in LoopPairs :
             /\ last.file1 = patterns[pair[1]].file
             /\ last.file2 = patterns[pair[2]].file
             /\ last.similarity = _calculate_similarity(patterns[pair[1]], patterns[pair[2]])
  /\ pc = "done" =>
       LET loops == check_all_similarities(patterns, threshold)
       IN  /\ {results[k] : k \in DOMAIN results} = {loops[k] : k \in DOMAIN loops}
           /\ Len(results) = Len(loops)
           /\ Totals(results) = Totals(loops)
           /\ \A k \in 1..(Len(results) - 1) :
                FLeq(results[k + 1].similarity.total, results[k].similarity.total)

\* a run that evaluated the last pair of the loops first has returned: the
\* three pairs are flagged, two of them with equal totals, and these two are
\* returned in another order than the nested loops return them
C27_Witness ==
  /\ pc = "done"
  /\ Len(evaluated) = 3
  /\ evaluated[1].file1 = "p2.md"
  /\ Len(results) = 3
  /\ results[2].similarity.total = results[3].similarity.total
  /\ results # check_all_similarities(patterns, threshold)

(***************************************************************************)
(* C28: the aggregate score is symmetric.  A call that returns for         *)
(* (d1, d2) returns for (d2, d1) too, with the same tag, title, category,  *)
(* content and total; a call that raises for (d1, d2) raises for (d2, d1). *)
(***************************************************************************)
C28_ScoreSymmetric ==
  (call.fn = "_calculate_similarity" /\ call.done) =>
    LET pattern1 == call.args[1]
        pattern2 == call.args[2]
    IN  /\ CalculateRaises(pattern2, pattern1) = call.raised
        /\ ~call.raised =>
             LET reversed == _calculate_similarity(pattern2, pattern1)
             IN  /\ reversed.tag = call.ret.tag
                 /\ reversed.title = call.ret.title
                 /\ reversed.category = call.ret.category
                 /\ reversed.content = call.ret.content
                 /\ reversed.total = call.ret.total

\* a score has been returned for two documents whose tag lists have
\* different lengths and whose problem/solution token sets have different
\* sizes and share some tokens
C28_Witness ==
  /\ call.fn = "_calculate_similarity"
  /\ call.done
  /\ ~call.raised
  /\ Len(call.args[1].tags) # Len(call.args[2].tags)
  /\ Cardinality(ContentTokens(call.args[1])) # Cardinality(ContentTokens(call.args[2]))
  /\ FLt(FZero, call.ret.content)
  /\ FLt(call.ret.content, FOne)
  /\ FLt(FZero, call.ret.title)

\* the problem/solution token set of a document
ProblemSolutionTokens(pattern) ==
  SectionTokens(pattern, "problem") \cup SectionTokens(pattern, "solution")

\* a title that is a non-empty str
NonEmptyTitle(pattern) == ~pattern.title.list /\ pattern.title.s # <<>>

\* two documents that are identical in every field
IdenticalFields(pattern1, pattern2) ==
  /\ pattern1.title = pattern2.title
  /\ pattern1.tags = pattern2.tags
  /\ pattern1.category = pattern2.category
  /\ pattern1.sections = pattern2.sections

(***************************************************************************)
(* C29: a returned total is 1.0 if and only if the two documents have      *)
(* equal non-empty tag sets, non-empty titles that are equal ignoring      *)
(* letter case, equal categories and equal non-empty problem/solution      *)
(* token sets.  Two documents identical in every field but without tags    *)
(* score tag = 0.0 and total at most 0.70; two identical documents without *)
(* problem/solution tokens score total at most 0.65.                       *)
(***************************************************************************)
C29_PerfectScore ==
  (call.fn = "_calculate_similarity" /\ call.done /\ ~call.raised) =>
    LET pattern1 == call.args[1]
        pattern2 == call.args[2]
        perfect ==
          /\ Range(pattern1.tags) # {}
          /\ Range(pattern1.tags) = Range(pattern2.tags)
          /\ NonEmptyTitle(pattern1) /\ NonEmptyTitle(pattern2)
          /\ LowerStr(pattern1.title.s) = LowerStr(pattern2.title.s)
          /\ pattern1.category = pattern2.category
          /\ ProblemSolutionTokens(pattern1) # {}
          /\ ProblemSolutionTokens(pattern1) = ProblemSolutionTokens(pattern2)
    IN  /\ call.ret.total = FOne <=> perfect
        /\ (IdenticalFields(pattern1, pattern2) /\ pattern1.tags = <<>>) =>
             /\ call.ret.tag = FZero
             /\ FLeq(call.ret.total, Dec(70))
        /\ (IdenticalFields(pattern1, pattern2) /\ ProblemSolutionTokens(pattern1) = {}) =>
             FLeq(call.ret.total, Dec(65))

\* a total of 1.0 has been returned for two documents whose titles differ
\* in letter case and whose sections differ outside problem and solution
C29_Witness ==
  /\ call.fn = "_calculate_similarity"
  /\ call.done
  /\ ~call.raised
  /\ call.ret.total = FOne
  /\ call.args[1].title # call.args[2].title
  /\ call.args[1].sections # call.args[2].sections

====
